---- MODULE Spec2Model ----
(***************************************************************************)
(* KwentaKo bot (eligiorbautista/kwentako-bot): the blob-backed webhook    *)
(* (src/api/webhook.js, second module of the file, lines 327-1110).        *)
(*                                                                         *)
(* Text is modelled as a sequence of tokens.  A token is an atomic piece   *)
(* of text (a word, a number, one punctuation character, a blank, a line   *)
(* break, or a literal fragment of a template).  No operation of the       *)
(* program that is modelled here cuts a token in two: split(",") and       *)
(* split("\n") cut at the tokens "," and "\n", the regular expressions of  *)
(* the fallback parser cut at blanks and at digit/non-digit borders.       *)
(* JavaScript numbers are modelled as naturals (whole pesos); NaN is -1.   *)
(***************************************************************************)
EXTENDS Integers, Sequences, FiniteSets, TLC

\* ------------------------------------------------------------------------
\* Bounds of the model
\* ------------------------------------------------------------------------

\* number of webhook invocations (text-message events) in one run
MaxInv == 2

\* largest maxRetries parseExpensesWithAI is called with
MaxRetriesBound == 3

\* number of records of a record set that is rendered and parsed back
MaxRecords == 2

\* number of requests the default export answers in one run
MaxRequests == 3

\* number of data rows of the sheet the statistics are computed from
MaxRows == 3

\* number of keys in the de-duplication cache when a run on the cache begins
CacheFill == 98

\* number of calls of parseExpensesWithAI that may be in progress together
MaxCallers == 3

\* number of seconds the clock runs while the calls of the model are timed
MaxTicks == 7

\* ------------------------------------------------------------------------
\* Strings
\* ------------------------------------------------------------------------

NL == "\n"
COMMA == ","
QUOTE == "\""
SP == " "
NaN == -1

\* the numbers that appear as text in a model run (amounts typed by the
\* user or returned by the model)
Numbers == {0, 2, 5, 80}

\* `${n}` for a number n
NumStr(n) == IF n = NaN THEN <<"NaN">> ELSE <<ToString(n)>>

IsNumTok(t) == \E n \in Numbers : ToString(n) = t

NumVal(t) == CHOOSE n \in Numbers : ToString(n) = t

RECURSIVE Split(_, _)
\* s.split(sep): the pieces of s between the sep tokens (always >= 1 piece)
Split(s, sep) ==
  IF \A i \in 1..Len(s) : s[i] # sep
    THEN <<s>>
    ELSE LET k == CHOOSE i \in 1..Len(s) :
                    s[i] = sep /\ \A j \in 1..(i-1) : s[j] # sep
         IN  <<SubSeq(s, 1, k-1)>> \o Split(SubSeq(s, k+1, Len(s)), sep)

RECURSIVE Join(_, _)
\* pieces.join(sep)
Join(pieces, sep) ==
  IF Len(pieces) = 0 THEN <<>>
  ELSE IF Len(pieces) = 1 THEN pieces[1]
  ELSE pieces[1] \o <<sep>> \o Join(Tail(pieces), sep)

RECURSIVE TrimLeft(_)
TrimLeft(s) == IF Len(s) > 0 /\ s[1] = SP THEN TrimLeft(Tail(s)) ELSE s

RECURSIVE TrimRight(_)
TrimRight(s) ==
  IF Len(s) > 0 /\ s[Len(s)] = SP THEN TrimRight(SubSeq(s, 1, Len(s)-1)) ELSE s

\* s.trim()
Trim(s) == TrimRight(TrimLeft(s))

\* s.replace(/"/g, "")
RemoveQuotes(s) == SelectSeq(s, LAMBDA t : t # QUOTE)

\* parseFloat(s): leading blanks are skipped, then the longest numeric prefix
ParseFloat(s) ==
  LET t == TrimLeft(s)
  IN  IF Len(t) > 0 /\ IsNumTok(t[1]) THEN NumVal(t[1]) ELSE NaN

\* n.toFixed(2) for a whole number n, or for NaN
ToFixed2(n) == IF n = NaN THEN <<"NaN">> ELSE <<ToString(n), ".00">>

\* ------------------------------------------------------------------------
\* Expense records and the CSV document
\* ------------------------------------------------------------------------

\* the enum of expenseSchema / simplifiedJsonSchema, in the order of
\* generateCompleteCSV's `categories`
categories == <<"Food", "Transportation", "Supplies", "Utilities", "Personal", "Other">>

CategorySet == {categories[i] : i \in 1..Len(categories)}

\* new Date().toLocaleDateString("en-PH")
Today == <<"11/3/2026">>

\* new Date().toISOString()
Timestamp == "2026-11-03T00:00:00.000Z"

CREATOR_NAME == "Eli Bautista"

\* an expense record: date, description and category are strings, amount a number
Rec(d, desc, a, c) == [date |-> d, description |-> desc, amount |-> a, category |-> c]

RECURSIVE SumAmounts(_)
\* records.reduce((sum, record) => sum + record.amount, 0)
SumAmounts(recs) ==
  IF Len(recs) = 0 THEN 0
  ELSE IF recs[1].amount = NaN \/ SumAmounts(Tail(recs)) = NaN THEN NaN
  ELSE recs[1].amount + SumAmounts(Tail(recs))

RECURSIVE CategoryTotal(_, _)
\* categoryTotals[cat] after the forEach of generateCompleteCSV:
\* (categoryTotals[record.category] || 0) + record.amount, where NaN is falsy
CategoryTotal(recs, cat) ==
  IF Len(recs) = 0 THEN 0
  ELSE IF recs[Len(recs)].category # <<cat>>
    THEN CategoryTotal(SubSeq(recs, 1, Len(recs) - 1), cat)
  ELSE IF recs[Len(recs)].amount = NaN THEN NaN
  ELSE IF CategoryTotal(SubSeq(recs, 1, Len(recs) - 1), cat) = NaN
    THEN recs[Len(recs)].amount
  ELSE CategoryTotal(SubSeq(recs, 1, Len(recs) - 1), cat) + recs[Len(recs)].amount

\* ((amount / total) * 100).toFixed(1), in tenths of a percent, rounded
PercentTenths(amount, total) == (2000 * amount + total) \div (2 * total)

\* the percentage without the `total > 0` test: 0 / 0 is NaN
PercentageUnguarded(amount, total) ==
  IF total = 0 \/ total = NaN \/ amount = NaN
    THEN <<"NaN">>
    ELSE <<ToString(PercentTenths(amount, total) \div 10), ".",
           ToString(PercentTenths(amount, total) % 10)>>

\* total > 0 ? ((amount / total) * 100).toFixed(1) : "0.0"
Percentage(amount, total) ==
  IF total > 0
    THEN <<ToString(PercentTenths(amount, total) \div 10), ".",
           ToString(PercentTenths(amount, total) % 10)>>
    ELSE <<"0.0">>

\* one line of the category breakdown
BreakdownLine(recs, cat) ==
  <<"# ", cat, ": PHP ">> \o ToFixed2(CategoryTotal(recs, cat)) \o <<" (">>
    \o Percentage(CategoryTotal(recs, cat), SumAmounts(recs)) \o <<"%)">>

HeaderRow == <<"Date", COMMA, "Description", COMMA, "Amount (PHP)", COMMA, "Category">>

\* one data row: `${date},"${description}",${amount},${category}`
DataRow(r) ==
  r.date \o <<COMMA, QUOTE>> \o r.description \o <<QUOTE, COMMA>>
    \o NumStr(r.amount) \o <<COMMA>> \o r.category

generateInitialCSV ==
  Join(<< <<"# KwentaKo Expense Tracker by Eli Bautista">>,
          <<"# Generated: ", Timestamp, SP>>,
          <<"# Total Expenses: PHP 0.00">>,
          <<"# Total Records: 0">>,
          <<"#">>,
          <<"# CATEGORY BREAKDOWN:">>,
          HeaderRow,
          <<"# Food: PHP 0.00 (0%)">>,
          <<"# Transportation: PHP 0.00 (0%)">>,
          <<"# Supplies: PHP 0.00 (0%)">>,
          <<"# Utilities: PHP 0.00 (0%)">>,
          <<"# Personal: PHP 0.00 (0%)">>,
          <<"# Other: PHP 0.00 (0%)">>,
          <<"#">>,
          <<>> >>, NL)

generateCompleteCSV(expenseRecords) ==
  LET header ==
        << <<"# KwentaKo Expense Tracker">>,
           <<"# Generated: ", Timestamp>>,
           <<"# Creator: ", CREATOR_NAME>>,
           <<"# Total Expenses: PHP ">> \o ToFixed2(SumAmounts(expenseRecords)),
           <<"# Total Records: ">> \o NumStr(Len(expenseRecords)),
           <<"#">>,
           <<"# CATEGORY BREAKDOWN:">> >>
        \o [i \in 1..Len(categories) |-> BreakdownLine(expenseRecords, categories[i])]
        \o << <<"#">>, HeaderRow >>
      dataRows == [i \in 1..Len(expenseRecords) |-> DataRow(expenseRecords[i])]
  IN  Join(header \o dataRows, NL) \o <<NL>>

\* trimmedLine.startsWith("#")
\* (the set holds the tokens that begin with the character '#')
StartsWithHash(line) ==
  /\ Len(line) > 0
  /\ line[1] \in
     {"#", "# ", "# KwentaKo Expense Tracker", "# KwentaKo Expense Tracker by Eli Bautista",
       "# Generated: ", "# Creator: ", "# Total Expenses: PHP ", "# Total Records: ",
       "# Total Expenses: PHP 0.00", "# Total Records: 0", "# CATEGORY BREAKDOWN:",
       "# Food: PHP 0.00 (0%)", "# Transportation: PHP 0.00 (0%)",
       "# Supplies: PHP 0.00 (0%)", "# Utilities: PHP 0.00 (0%)",
       "# Personal: PHP 0.00 (0%)", "# Other: PHP 0.00 (0%)"}

\* trimmedLine.startsWith("Date,Description,Amount")
StartsWithHeader(line) ==
  /\ Len(line) >= 5
  /\ SubSeq(line, 1, 4) = <<"Date", COMMA, "Description", COMMA>>
  /\ line[5] \in {"Amount", "Amount (PHP)"}

\* "Parse data rows": the row's fields are `parts`
ParseDataRow(st, parts) ==
  IF st.inDataSection /\ Len(parts) >= 4 /\ ParseFloat(parts[3]) # NaN
    THEN [st EXCEPT !.expenses =
             Append(@, Rec(parts[1], RemoveQuotes(parts[2]), ParseFloat(parts[3]), parts[4]))]
    ELSE st

\* a loop body that takes every line after the header row for a data row
ParseTrimmedNaive(st, trimmedLine) ==
  IF Len(trimmedLine) = 0 THEN st
  ELSE IF StartsWithHeader(trimmedLine) THEN [st EXCEPT !.inDataSection = TRUE]
  ELSE IF st.inDataSection
    THEN [st EXCEPT !.expenses = Append(@, Rec(trimmedLine, <<>>, 0, <<"Other">>))]
  ELSE st

\* the body of parseExistingCSV's loop for one trimmed line
ParseTrimmed(st, trimmedLine) ==
  IF Len(trimmedLine) = 0 \/ StartsWithHash(trimmedLine) THEN st
  ELSE IF StartsWithHeader(trimmedLine) THEN [st EXCEPT !.inDataSection = TRUE]
  ELSE ParseDataRow(st, Split(trimmedLine, COMMA))

RECURSIVE ParseLines(_, _)
\* parseExistingCSV's loop: the records so far and the inDataSection flag,
\* after the lines (each line is trimmed first)
ParseLines(st, lines) ==
  IF Len(lines) = 0 THEN st
  ELSE ParseLines(ParseTrimmed(st, Trim(lines[1])), Tail(lines))

parseExistingCSV(csvContent) ==
  ParseLines([expenses |-> <<>>, inDataSection |-> FALSE], Split(csvContent, NL)).expenses

\* ------------------------------------------------------------------------
\* Message text: characters of the tokens, case, substrings
\* ------------------------------------------------------------------------

\* the characters of a token of the vocabulary
Letters(t) ==
  CASE t = "taxi" -> <<"t", "a", "x", "i">>
    [] t = "Taxi" -> <<"T", "a", "x", "i">>
    [] t = "fare" -> <<"f", "a", "r", "e">>
    [] t = "lunch" -> <<"l", "u", "n", "c", "h">>
    [] t = "great" -> <<"g", "r", "e", "a", "t">>
    [] t = "coffee" -> <<"c", "o", "f", "f", "e", "e">>
    [] t = "hi" -> <<"h", "i">>
    [] t = "ok" -> <<"o", "k">>
    [] t = "/start" -> <<"/", "s", "t", "a", "r", "t">>
    [] t = "pax" -> <<"p", "a", "x">>
    [] t = "Water" -> <<"W", "a", "t", "e", "r">>
    [] t = "bill" -> <<"b", "i", "l", "l">>
    [] t = "for" -> <<"f", "o", "r">>
    [] t = "php" -> <<"p", "h", "p">>
    [] t = "Date" -> <<"D", "a", "t", "e">>
    [] t = "80" -> <<"8", "0">>
    [] t = "5" -> <<"5">>
    [] t = "2" -> <<"2">>
    [] t = "0" -> <<"0">>
    [] t = " " -> <<" ">>
    [] t = "," -> <<",">>
    [] t = "\"" -> <<"\"">>
    [] OTHER -> <<t>>
\* c.toLowerCase() for one character
Lower(c) ==
  CASE c = "A" -> "a"
    [] c = "B" -> "b"
    [] c = "C" -> "c"
    [] c = "D" -> "d"
    [] c = "E" -> "e"
    [] c = "F" -> "f"
    [] c = "G" -> "g"
    [] c = "H" -> "h"
    [] c = "I" -> "i"
    [] c = "J" -> "j"
    [] c = "K" -> "k"
    [] c = "L" -> "l"
    [] c = "M" -> "m"
    [] c = "N" -> "n"
    [] c = "O" -> "o"
    [] c = "P" -> "p"
    [] c = "Q" -> "q"
    [] c = "R" -> "r"
    [] c = "S" -> "s"
    [] c = "T" -> "t"
    [] c = "U" -> "u"
    [] c = "V" -> "v"
    [] c = "W" -> "w"
    [] c = "X" -> "x"
    [] c = "Y" -> "y"
    [] c = "Z" -> "z"
    [] OTHER -> c
RECURSIVE Chars(_)
\* the characters of a text
Chars(s) == IF Len(s) = 0 THEN <<>> ELSE Letters(s[1]) \o Chars(Tail(s))

\* c.toLowerCase() for a sequence of characters
LowerAll(c) == [i \in 1..Len(c) |-> Lower(c[i])]

\* s.toLowerCase(), as characters
LowerChars(s) == LowerAll(Chars(s))

\* hay.includes(needle), on characters
IsSubstring(needle, hay) ==
  \E i \in 0..(Len(hay) - Len(needle)) : SubSeq(hay, i + 1, i + Len(needle)) = needle

\* hay.startsWith(needle), on characters
IsPrefix(needle, hay) ==
  Len(needle) <= Len(hay) /\ SubSeq(hay, 1, Len(needle)) = needle

\* ------------------------------------------------------------------------
\* parseExpensesManually: the fallback parser
\* (texts have no line break, no leading or trailing blank, and no word that
\* only begins with "for", "cost", "price", "worth", "php" or "peso")
\* ------------------------------------------------------------------------

\* (?:for|cost|price|worth|) of patterns[0], the non-empty alternatives
costWords == {<<"f", "o", "r">>, <<"c", "o", "s", "t">>, <<"p", "r", "i", "c", "e">>, <<"w", "o", "r", "t", "h">>}

\* (?:php|P|pesos?|), the non-empty alternatives (characters outside ASCII are written by name)
currencyWords == {<<"p", "h", "p">>, <<"PESO SIGN">>, <<"p", "e", "s", "o">>, <<"p", "e", "s", "o", "s">>}

RECURSIVE SkipSp(_, _)
\* \s*: the first position at or after p that holds no blank
SkipSp(toks, p) ==
  IF p <= Len(toks) /\ toks[p] = SP THEN SkipSp(toks, p + 1) ELSE p

\* patterns[0] with group 1 = the first e tokens: the position of the number
\* that group 2 matches, 0 when the rest of the pattern does not match
Pattern0Num(toks, e) ==
  LET p == e + 1
      a == SkipSp(toks, p)
      b == IF a <= Len(toks) /\ LowerChars(<<toks[a]>>) \in costWords THEN a + 1 ELSE a
      c == SkipSp(toks, b)
      d == IF c <= Len(toks) /\ LowerChars(<<toks[c]>>) \in currencyWords THEN c + 1 ELSE c
      f == SkipSp(toks, d)
  IN  IF p <= Len(toks) /\ toks[p] = SP /\ f <= Len(toks) /\ IsNumTok(toks[f])
        THEN f ELSE 0

\* patterns[1]: the positions of a number followed by a blank and more text
Pattern1Nums(toks) ==
  {n \in 1..Len(toks) : IsNumTok(toks[n]) /\ n + 2 <= Len(toks) /\ toks[n + 1] = SP}

\* group 2 of patterns[1] for the number at n: (?:for|)\s*(.+)
Pattern1Desc(toks, n) ==
  LET a == SkipSp(toks, n + 1)
      b == IF a <= Len(toks) /\ LowerChars(<<toks[a]>>) = <<"f", "o", "r">> THEN SkipSp(toks, a + 1) ELSE a
  IN  IF a > Len(toks) THEN <<SP>>
      ELSE IF b > Len(toks) THEN SubSeq(toks, a, Len(toks))
      ELSE SubSeq(toks, b, Len(toks))

\* patterns[2]: (.+?)\s+(\d+)$
Pattern2Matches(toks) ==
  Len(toks) >= 3 /\ IsNumTok(toks[Len(toks)]) /\ toks[Len(toks) - 1] = SP

Min(S) == CHOOSE x \in S : \A y \in S : x <= y

\* patterns[0]: the position of the number for each length of group 1
Pattern0Map(text) == [e \in 1..Len(text) |-> Pattern0Num(text, e)]

\* the loop over patterns, with the matches of each pattern: amount (NaN for
\* null) and description after it
MatchWith(text, p0, N1, E2) ==
  IF \E e \in 1..Len(text) : p0[e] # 0
    THEN [amount |-> NumVal(text[p0[Min({e \in 1..Len(text) : p0[e] # 0})]]),
          description |-> Trim(SubSeq(text, 1, Min({e \in 1..Len(text) : p0[e] # 0})))]
  ELSE IF N1 # {}
    THEN [amount |-> NumVal(text[Min(N1)]),
          description |-> Trim(Pattern1Desc(text, Min(N1)))]
  ELSE IF Pattern2Matches(text) /\ E2 # {}
    THEN [amount |-> NumVal(text[Len(text)]),
          description |-> Trim(SubSeq(text, 1, Min(E2)))]
  ELSE [amount |-> NaN, description |-> Trim(text)]

ManualMatch(text) ==
  MatchWith(text, Pattern0Map(text), Pattern1Nums(text),
            {e \in 1..(Len(text) - 2) : SkipSp(text, e + 1) = Len(text)})

\* !amount
Falsy(a) == a = NaN \/ a = 0

\* "If no amount found, try to extract any number"
AnyNumberAt(text, m, J) ==
  IF Falsy(m.amount) /\ J # {}
    THEN [amount |-> NumVal(text[Min(J)]),
          description |->
            Trim(SubSeq(text, 1, Min(J) - 1) \o SubSeq(text, Min(J) + 1, Len(text)))]
    ELSE m

ManualAnyNumber(text, m) == AnyNumberAt(text, m, {j \in 1..Len(text) : IsNumTok(text[j])})

\* "Default fallback"
ManualDefault(text, m) ==
  IF Falsy(m.amount) THEN [amount |-> 0, description |-> text] ELSE m

FoodKeywords ==
  {<<"f", "o", "o", "d">>,
   <<"l", "u", "n", "c", "h">>,
   <<"d", "i", "n", "n", "e", "r">>,
   <<"m", "e", "a", "l">>,
   <<"e", "a", "t">>}

TransportationKeywords ==
  {<<"t", "a", "x", "i">>,
   <<"b", "u", "s">>,
   <<"t", "r", "a", "n", "s", "p", "o", "r", "t">>,
   <<"f", "a", "r", "e">>}

SuppliesKeywords ==
  {<<"o", "f", "f", "i", "c", "e">>,
   <<"w", "o", "r", "k">>,
   <<"s", "u", "p", "p", "l", "i", "e", "s">>}

UtilitiesKeywords ==
  {<<"b", "i", "l", "l">>,
   <<"e", "l", "e", "c", "t", "r", "i", "c">>,
   <<"w", "a", "t", "e", "r">>,
   <<"i", "n", "t", "e", "r", "n", "e", "t">>}

PersonalKeywords ==
  {<<"p", "e", "r", "s", "o", "n", "a", "l">>,
   <<"h", "e", "a", "l", "t", "h">>,
   <<"m", "e", "d", "i", "c", "a", "l">>}

IncludesAny(lowerText, words) == \E w \in words : IsSubstring(w, lowerText)

\* "Simple category guessing"
CategoryOf(lowerText) ==
  IF IncludesAny(lowerText, FoodKeywords) THEN "Food"
  ELSE IF IncludesAny(lowerText, TransportationKeywords) THEN "Transportation"
  ELSE IF IncludesAny(lowerText, SuppliesKeywords) THEN "Supplies"
  ELSE IF IncludesAny(lowerText, UtilitiesKeywords) THEN "Utilities"
  ELSE IF IncludesAny(lowerText, PersonalKeywords) THEN "Personal"
  ELSE "Other"

\* keyword matching on the text as typed, without toLowerCase()
ManualCategoryCaseSensitive(text) == CategoryOf(Chars(text))

\* const lowerText = text.toLowerCase(), then the chain of includes()
ManualCategory(text) == CategoryOf(LowerChars(text))

\* the array returned: one record, description || "Manual entry"
ManualResult(m, category) ==
  << Rec(Today,
         IF m.description = <<>> THEN <<"Manual entry">> ELSE m.description,
         m.amount,
         <<category>>) >>

parseExpensesManually(text) ==
  ManualResult(ManualDefault(text, ManualAnyNumber(text, ManualMatch(text))),
               ManualCategory(text))

\* ------------------------------------------------------------------------
\* Errors: a message is a text; message.includes(x) looks for the tokens of x
\* ------------------------------------------------------------------------

Includes(message, needle) == IsSubstring(needle, message)

\* errors of ai.models.generateContent / JSON.parse
ErrOverloaded == <<"The model is ", "overloaded">>

\* errors of the blob store client and of fetch
ErrBlobAccess == <<"Vercel ", "Blob", ": Access denied">>
ErrNetwork == <<"fetch failed">>
ErrHttp(status) == <<"HTTP ", status, ": ">>

ErrEmptyInput == <<"Empty input text">>

\* the test of the catch block of parseExpensesWithAI
IsTransient(message) ==
  \/ Includes(message, <<"503">>)
  \/ Includes(message, <<"overloaded">>)
  \/ Includes(message, <<"UNAVAILABLE">>)
  \/ Includes(message, <<"rate limit">>)
  \/ Includes(message, <<"429">>)

\* ------------------------------------------------------------------------
\* parseExpensesWithAI
\* ------------------------------------------------------------------------

\* the default of the maxRetries parameter
DefaultMaxRetries == 3

\* an outcome of one call of the model: the parsed JSON array, or an error
AiOk(data) == [kind |-> "ok", data |-> data, message |-> <<>>]

AiErr(message) == [kind |-> "err", data |-> <<>>, message |-> message]

\* parsedData.map((record) => ({ ...record, date }))
StampDate(parsedData) ==
  [k \in 1..Len(parsedData) |->
     Rec(Today, parsedData[k].description, parsedData[k].amount, parsedData[k].category)]

\* return parseExpensesManually(text)
Fallback(text) ==
  [t |-> "return", records |-> parseExpensesManually(text), message |-> <<>>,
   manual |-> TRUE]

\* a retry loop that gives up without the fallback parser: the error of the
\* last attempt is thrown
AttemptWithoutFallback(attempt, maxRetries, outcome, fallback) ==
  IF outcome.kind = "ok"
    THEN [t |-> "return", records |-> StampDate(outcome.data), message |-> <<>>,
          manual |-> FALSE]
  ELSE IF IsTransient(outcome.message) /\ attempt < maxRetries
    THEN [t |-> "retry", records |-> <<>>, message |-> <<>>, manual |-> FALSE]
  ELSE [t |-> "throw", records |-> <<>>, message |-> outcome.message, manual |-> FALSE]

\* a retry loop that throws every non-transient error, on the last attempt too
AttemptPropagating(attempt, maxRetries, outcome, fallback) ==
  IF outcome.kind = "ok"
    THEN [t |-> "return", records |-> StampDate(outcome.data), message |-> <<>>,
          manual |-> FALSE]
  ELSE IF IsTransient(outcome.message)
    THEN IF attempt < maxRetries
           THEN [t |-> "retry", records |-> <<>>, message |-> <<>>, manual |-> FALSE]
           ELSE fallback
  ELSE [t |-> "throw", records |-> <<>>, message |-> outcome.message, manual |-> FALSE]

\* one iteration of the retry loop: what the attempt ends in, `fallback`
\* being what the fallback parser returns for the text
AttemptWith(attempt, maxRetries, outcome, fallback) ==
  IF outcome.kind = "ok"
    THEN [t |-> "return", records |-> StampDate(outcome.data), message |-> <<>>,
          manual |-> FALSE]
  ELSE IF IsTransient(outcome.message)
    THEN IF attempt < maxRetries
           THEN [t |-> "retry", records |-> <<>>, message |-> <<>>, manual |-> FALSE]
           ELSE fallback
  ELSE IF attempt = maxRetries
    THEN fallback
  ELSE [t |-> "throw", records |-> <<>>, message |-> outcome.message, manual |-> FALSE]

\* !text || text.trim().length === 0
IsEmptyInput(text) == Len(Chars(Trim(text))) = 0

RECURSIVE RunAttempts(_, _, _, _)
\* the retry loop from `attempt` on, the calls of the model ending as
\* `outcomes`
RunAttempts(attempt, maxRetries, outcomes, fallback) ==
  IF /\ AttemptWith(attempt, maxRetries, outcomes[1], fallback).t = "retry"
     /\ Len(outcomes) > 1
    THEN RunAttempts(attempt + 1, maxRetries, Tail(outcomes), fallback)
    ELSE AttemptWith(attempt, maxRetries, outcomes[1], fallback)

\* parseExpensesWithAI(text) as one step
ExtractResult(text, maxRetries, outcomes) ==
  IF IsEmptyInput(text)
    THEN [t |-> "throw", records |-> <<>>, message |-> ErrEmptyInput, manual |-> FALSE]
    ELSE RunAttempts(1, maxRetries, outcomes, Fallback(text))

\* ------------------------------------------------------------------------
\* The text handler: filters for messages that are no expense
\* ------------------------------------------------------------------------

\* the words of nonExpensePatterns
nonExpenseWords ==
  {<<"h", "i">>,
   <<"h", "e", "l", "l", "o">>,
   <<"h", "e", "y">>,
   <<"t", "h", "a", "n", "k", "s">>,
   <<"t", "h", "a", "n", "k", " ", "y", "o", "u">>,
   <<"o", "k">>,
   <<"o", "k", "a", "y">>,
   <<"y", "e", "s">>,
   <<"n", "o">>,
   <<"w", "h", "a", "t">>,
   <<"h", "o", "w">>,
   <<"w", "h", "y">>,
   <<"g", "o", "o", "d">>,
   <<"b", "a", "d">>,
   <<"n", "i", "c", "e">>,
   <<"c", "o", "o", "l">>,
   <<"a", "w", "e", "s", "o", "m", "e">>,
   <<"g", "r", "e", "a", "t">>,
   <<"p", "e", "r", "f", "e", "c", "t">>,
   <<"d", "o", "n", "e">>,
   <<"f", "i", "n", "i", "s", "h", "e", "d">>,
   <<"c", "o", "m", "p", "l", "e", "t", "e">>,
   <<"s", "t", "o", "p">>,
   <<"e", "n", "d">>,
   <<"q", "u", "i", "t">>,
   <<"e", "x", "i", "t">>,
   <<"h", "e", "l", "p">>,
   <<"i", "n", "f", "o">>,
   <<"a", "b", "o", "u", "t">>}
\* the first characters of botResponsePatterns
botResponseChars ==
  {"CHECK MARK", "CROSS MARK", "BAR CHART", "INBOX TRAY", "MAGNIFYING GLASS", "ROBOT FACE"}

\* csvDataPattern: /^(Date|#|\d{4}-\d{2}-\d{2})/i, on the characters c
csvDataPattern(c) ==
  \/ IsPrefix(<<"d", "a", "t", "e">>, LowerAll(c))
  \/ IsPrefix(<<"#">>, c)
  \/ /\ Len(c) >= 10
     /\ \A k \in {1, 2, 3, 4, 6, 7, 9, 10} : c[k] \in {"0", "1", "2", "3", "4", "5", "6", "7", "8", "9"}
     /\ c[5] = "-" /\ c[8] = "-"

\* the test of "Enhanced filtering for non-expense messages", on the
\* characters of the text and of the trimmed text
NonExpenseChars(c, trimmed) ==
  \/ LowerAll(trimmed) \in nonExpenseWords
  \/ (Len(trimmed) > 0 /\ trimmed[1] \in botResponseChars)
  \/ IsSubstring(<<"<", "a", " ", "h", "r", "e", "f", "=">>, LowerAll(c))
  \/ csvDataPattern(c)

\* text.includes(',"') && text.includes(","), on the characters c
LooksLikeCsv(c) == IsSubstring(<<COMMA, QUOTE>>, c) /\ IsSubstring(<<COMMA>>, c)

\* text.substring(0, 50), on the characters c
Substring50(c) == SubSeq(c, 1, IF Len(c) < 50 THEN Len(c) ELSE 50)

\* `${userId}:${messageId}:${text.substring(0, 50)}`
MessageKey(m) == <<m.userId, m.messageId, Substring50(Chars(m.text))>>

MESSAGE_CACHE_SIZE == 100

\* processedMessages.add(messageKey) without the size limit
AddProcessedUnbounded(cache, key) ==
  IF \E k \in 1..Len(cache) : cache[k] = key THEN cache ELSE Append(cache, key)

\* processedMessages.add(messageKey) and the eviction of the oldest key
AddProcessed(cache, key) ==
  LET added == IF \E k \in 1..Len(cache) : cache[k] = key THEN cache ELSE Append(cache, key)
  IN  IF Len(added) > MESSAGE_CACHE_SIZE THEN Tail(added) ELSE added

\* the reply chosen by the catch block of the text handler
ErrorReply(message) ==
  IF \/ Includes(message, <<"503">>)
     \/ Includes(message, <<"overloaded">>)
     \/ Includes(message, <<"UNAVAILABLE">>)
    THEN "overloaded"
  ELSE IF Includes(message, <<"rate limit">>) \/ Includes(message, <<"429">>)
    THEN "rate_limit"
  ELSE IF Includes(message, <<"Blob">>)
    THEN "saving_issue"
  ELSE "unexpected"

\* newRecords.some((record) => record.amount === 0 || record.description === "Manual entry")
IsManualParsing(newRecords) ==
  \E k \in 1..Len(newRecords) :
    newRecords[k].amount = 0 \/ newRecords[k].description = <<"Manual entry">>

\* an inner catch that takes only the "file not found" message for a missing blob
IsNotFoundStrict(downloadError, listError) ==
  Includes(downloadError, <<"file not found">>)

\* the test of readBlobContent's inner catch: the blob does not exist
IsNotFound(downloadError, listError) ==
  \/ Includes(downloadError, <<"404">>)
  \/ Includes(downloadError, <<"file not found">>)
  \/ Includes(downloadError, <<"Blob", "NotFoundError">>)
  \/ Includes(downloadError, <<"Invalid URL">>)
  \/ Includes(listError, <<"404">>)
  \/ Includes(listError, <<"file not found">>)

\* throw new Error(`Blob Read Error: ${downloadError.message}`)
BlobReadError(message) == <<"Blob", " Read Error: ">> \o message

\* throw new Error(`Failed to write blob content: ${error.message}`)
BlobWriteError(message) == <<"Failed to write blob content: ">> \o message

\* ------------------------------------------------------------------------
\* State
\* ------------------------------------------------------------------------

VARIABLES
  inv,                \* per webhook invocation: the locals of the text handler
  blob,               \* the blob expenses/kwentako_data.csv of the store
  backups,            \* the contents of the timestamped backup blobs
  processedMessages,  \* the de-duplication cache, oldest key first
  putLog,             \* history: the documents written by put, in order
  storedRecords,      \* history: the records the stored document was rendered from
  ai,                 \* one call of parseExpensesWithAI, step by step
  csv,                \* one rendering of a record set and the parse of the result
  web,                \* the request the default export is handling
  served,             \* history: the requests the default export has answered
  stats,              \* one call of getStatsFromSheet, step by step
  rate                \* the clock, lastGeminiCall and the calls of the model

vars ==
  <<inv, blob, backups, processedMessages, putLog, storedRecords, ai, csv, web, served,
    stats, rate>>

Invocations == 1..MaxInv

\* ------------------------------------------------------------------------
\* Inputs: the messages users send and what the model answers
\* ------------------------------------------------------------------------

Msg(u, id, text) == [userId |-> u, messageId |-> id, text |-> text, is_bot |-> FALSE]


TextTaxi == <<"taxi", SP, "fare", SP, "80">>
TextLunch == <<"lunch", COMMA, SP, "2", SP, "pax", SP, "5">>

Messages ==
  {Msg(7, 1, TextTaxi), Msg(7, 2, TextLunch), Msg(7, 3, <<"hi">>),
   Msg(7, 4, <<"Water", SP, "bill">>)}

\* the JSON arrays the model may answer with (description, amount, category)
Item(desc, a, c) == [description |-> desc, amount |-> a, category |-> c]

AiResponses(text) ==
  IF text = TextTaxi
    THEN {<<Item(<<"taxi", SP, "fare">>, 80, <<"Transportation">>)>>,
          <<Item(<<"taxi">>, 80, <<"Misc">>)>>,
          <<>>}
  ELSE IF text = TextLunch
    THEN {<<Item(<<"lunch", COMMA, SP, "2", SP, "pax">>, 5, <<"Food">>)>>,
          <<Item(<<"lunch">>, 0, <<"Food">>)>>}
  ELSE {<<>>}

\* what one call of the model may end in: an array, or one of its errors
AiOutcomes(text) ==
  {AiOk(d) : d \in AiResponses(text)}
    \cup {AiErr(e) : e \in {ErrOverloaded, <<"429", " Too Many Requests">>,
                             <<"Unexpected token in JSON">>}}

\* the complete runs of the retry loop: k transient failures, then a last call
AiRuns(text, maxRetries) ==
  UNION {{[j \in 1..k |-> AiErr(ErrOverloaded)] \o <<last>> :
            last \in {o \in AiOutcomes(text) :
                        k = maxRetries - 1 \/ o.kind = "ok" \/ ~IsTransient(o.message)}} :
         k \in 0..(maxRetries - 1)}

\* the failures of the store's calls
ListErrors == {ErrNetwork}
DownloadErrors == {<<"Invalid URL">>, ErrNetwork}
PutErrors == {ErrBlobAccess, ErrNetwork}

\* ------------------------------------------------------------------------
\* Initial state
\* ------------------------------------------------------------------------

NoBlob == [present |-> FALSE, content |-> <<>>]

\* what an earlier run of the function may have left in the store
PriorRecords == <<Rec(Today, <<"coffee">>, 5, <<"Food">>)>>

PriorPut ==
  [inv |-> 0, existing |-> <<>>, new |-> PriorRecords,
   content |-> generateCompleteCSV(PriorRecords), readAt |-> 0, renderedFrom |-> <<>>]

InitLocal ==
  [pc |-> "idle", msg |-> Msg(0, 0, <<>>), newRecords |-> <<>>, usedFallback |-> FALSE,
   isManualParsing |-> FALSE, listError |-> <<>>, existingRecords |-> <<>>,
   updatedContent |-> <<>>, replies |-> <<>>, failure |-> "none", error |-> <<>>,
   readAt |-> 0, gotInitial |-> "none", overlapped |-> FALSE, renderedFrom |-> <<>>]

NoAi ==
  [pc |-> "off", text |-> <<>>, maxRetries |-> 0, sinceLast |-> 0, attempt |-> 0,
   calls |-> <<>>,
   waits |-> <<>>, result |-> [t |-> "none", records |-> <<>>, message |-> <<>>,
                               manual |-> FALSE]]

NoCsv == [pc |-> "off", R |-> <<>>, doc |-> <<>>, parsed |-> <<>>]

NoWeb == [pc |-> "idle", headersSent |-> FALSE, responses |-> <<>>]

\* the process has been up for GEMINI_MIN_DELAY; lastGeminiCall = 0
NoRate ==
  [now |-> 2000, lastGeminiCall |-> 0, calls |-> <<>>,
   caller |-> [c \in 1..MaxCallers |-> [pc |-> "idle", wake |-> 0, attempt |-> 0]]]

NoStats ==
  [pc |-> "off", values |-> [defined |-> FALSE, rows |-> <<>>], rows |-> <<>>,
   result |-> [summary |-> "none"]]

InitStore ==
  \/ /\ blob = NoBlob
     /\ putLog = <<>>
     /\ storedRecords = <<>>
  \/ /\ blob = [present |-> TRUE, content |-> PriorPut.content]
     /\ putLog = <<PriorPut>>
     /\ storedRecords = PriorRecords

Init ==
  /\ inv = [i \in Invocations |-> InitLocal]
  /\ InitStore
  /\ backups = {}
  /\ processedMessages = <<>>
  /\ ai = NoAi
  /\ csv = NoCsv
  /\ web = NoWeb
  /\ served = <<>>
  /\ stats = NoStats
  /\ rate = NoRate

\* ------------------------------------------------------------------------
\* The text handler, bot.on("text"), one action per stretch between awaits
\* ------------------------------------------------------------------------

\* ctx.reply(...) is called
Reply(l, kind) == [l EXCEPT !.replies = Append(@, kind)]

\* the handler returns: its locals are gone, what it did for the user stays
Finish(l) ==
  [l EXCEPT !.pc = "done", !.newRecords = <<>>, !.listError = <<>>,
            !.existingRecords = <<>>, !.updatedContent = <<>>, !.renderedFrom = <<>>]

\* a catch block that only logs the error
CatchSilent(l, message, failure) ==
  Finish([l EXCEPT !.failure = failure, !.error = message])

\* the catch block of the handler: one reply (`error` keeps the message caught)
Catch(l, message, failure) ==
  Finish([Reply(l, ErrorReply(message)) EXCEPT !.failure = failure, !.error = message])

\* between readBlobContent's first call and the return of writeBlobContent
InMerge(l) == l.pc \in {"r_list", "r_fetch", "r_dl", "w_list", "w_del", "w_put", "w_backup"}

\* the filters of the handler, on the characters of the text and of the
\* trimmed text, and the "Processing" reply
Filter(l, is_bot, c, trimmed) ==
  IF IsPrefix(<<"/">>, c) \/ is_bot THEN Finish(l)
  ELSE IF Len(trimmed) < 3 THEN Finish(Reply(l, "more_details"))
  ELSE IF NonExpenseChars(c, trimmed) THEN Finish(Reply(l, "guidance"))
  ELSE IF LooksLikeCsv(c) THEN Finish(Reply(l, "csv_data"))
  ELSE [Reply(l, "processing") EXCEPT !.pc = "extract"]

\* a handler that records the key but never tests the cache
DedupNever(l, m, key) ==
  [l |-> Filter(l, m.is_bot, Chars(m.text), Chars(Trim(m.text))),
   cache |-> AddProcessed(processedMessages, key)]

\* the de-duplication: the handler's locals and the cache after it
Dedup(l, m, key) ==
  IF \E k \in 1..Len(processedMessages) : processedMessages[k] = key
    THEN [l |-> Finish(l), cache |-> processedMessages]
    ELSE [l |-> Filter(l, m.is_bot, Chars(m.text), Chars(Trim(m.text))),
          cache |-> AddProcessed(processedMessages, key)]

\* both variables after the event arrived
Received(i, d) ==
  /\ inv' = [inv EXCEPT ![i] = d.l]
  /\ processedMessages' = d.cache

\* The event arrives: de-duplication, the filters, the "Processing" reply.
Receive(i, m) ==
  /\ inv[i].pc = "idle"
  /\ \A j \in Invocations : j < i => inv[j].pc # "idle"
  /\ Received(i, Dedup([inv[i] EXCEPT !.msg = m], m, MessageKey(m)))
  /\ UNCHANGED <<blob, backups, putLog, storedRecords, ai, csv, web, served, stats, rate>>

\* a handler without the empty-array test: it merges whatever was extracted
ExtractedMergesEmpty(i, l, r) ==
  IF r.t = "throw"
    THEN [inv EXCEPT ![i] = Catch(l, r.message, "extract")]
  ELSE [inv EXCEPT ![i] =
          [l EXCEPT !.pc = "r_list",
                    !.newRecords = r.records,
                    !.usedFallback = r.manual,
                    !.isManualParsing = IsManualParsing(r.records)]]

\* the handler after parseExpensesWithAI ended as r
Extracted(i, l, r) ==
  IF r.t = "throw"
    THEN [inv EXCEPT ![i] = Catch(l, r.message, "extract")]
  ELSE IF Len(r.records) = 0
    THEN [inv EXCEPT ![i] = Finish(Reply(l, "could_not_extract"))]
  ELSE [j \in Invocations |->
          IF j = i
            THEN [l EXCEPT !.pc = "r_list",
                           !.newRecords = r.records,
                           !.usedFallback = r.manual,
                           !.isManualParsing = IsManualParsing(r.records),
                           !.overlapped = \E k \in Invocations : InMerge(inv[k])]
          ELSE IF InMerge(inv[j]) THEN [inv[j] EXCEPT !.overlapped = TRUE]
          ELSE inv[j]]

\* parseExpensesWithAI(text): the calls of the model touch neither the store
\* nor the cache and are taken as one step.  Then the empty-result reply, or
\* isManualParsing and the first call of readBlobContent.
Extract(i, outcomes) ==
  /\ inv[i].pc = "extract"
  /\ inv' = Extracted(i, inv[i],
                      ExtractResult(inv[i].msg.text, DefaultMaxRetries, outcomes))
  /\ UNCHANGED <<blob, backups, processedMessages, putLog, storedRecords, ai, csv,
                 web, served, stats, rate>>

\* steps 3 to 5 of the handler on the records parsed from the document read
Merged(l, existingRecords, gotInitial) ==
  [l EXCEPT !.pc = "w_list",
            !.existingRecords = existingRecords,
            !.updatedContent = generateCompleteCSV(existingRecords \o l.newRecords),
            !.readAt = Len(putLog),
            !.gotInitial = gotInitial,
            !.renderedFrom = storedRecords]

\* readBlobContent returned `content`: steps 3 to 5 of the handler, and the
\* first call of writeBlobContent
Merge(l, content, gotInitial) == Merged(l, parseExistingCSV(content), gotInitial)

\* how a call of readBlobContent goes on: `to` is the next call, or "return"
\* with the content returned, or "throw" with the error thrown
GoOn(to, content, message, gotInitial) ==
  [to |-> to, content |-> content, message |-> message, gotInitial |-> gotInitial]

\* the handler after a step of readBlobContent
AfterRead(l, g) ==
  IF g.to = "return" THEN Merge(l, g.content, g.gotInitial)
  ELSE IF g.to = "throw" THEN Catch(l, g.message, "read")
  ELSE [l EXCEPT !.pc = g.to, !.listError = g.message]

\* readBlobContent, method 1: list({prefix: "expenses/"}) answers
ReadList(i) ==
  /\ inv[i].pc = "r_list"
  /\ \E g \in {IF blob.present THEN GoOn("r_fetch", <<>>, <<>>, "none")
               ELSE GoOn("return", generateInitialCSV, <<>>, "absent")}
               \cup {GoOn("r_dl", <<>>, e, "none") : e \in ListErrors} :
       inv' = [inv EXCEPT ![i] = AfterRead(@, g)]
  /\ UNCHANGED <<blob, backups, processedMessages, putLog, storedRecords, ai, csv,
                 web, served, stats, rate>>

\* readBlobContent, method 1: fetch(targetBlob.url) answers
ReadFetch(i) ==
  /\ inv[i].pc = "r_fetch"
  /\ \E g \in {IF blob.present THEN GoOn("return", blob.content, <<>>, "none")
               ELSE GoOn("r_dl", <<>>, ErrHttp("404"), "none")}
               \cup {GoOn("r_dl", <<>>, e, "none") : e \in {ErrHttp("500")}} :
       inv' = [inv EXCEPT ![i] = AfterRead(@, g)]
  /\ UNCHANGED <<blob, backups, processedMessages, putLog, storedRecords, ai, csv,
                 web, served, stats, rate>>

\* the inner catch of readBlobContent
ReadFailed(downloadError, listError, gotInitial) ==
  IF IsNotFound(downloadError, listError)
    THEN GoOn("return", generateInitialCSV, <<>>, gotInitial)
    ELSE GoOn("throw", <<>>, BlobReadError(downloadError), "none")

\* readBlobContent, method 2: getDownloadUrl and fetch
ReadDownload(i) ==
  /\ inv[i].pc = "r_dl"
  /\ \E g \in {IF blob.present THEN GoOn("return", blob.content, <<>>, "none")
               ELSE ReadFailed(ErrHttp("404"), inv[i].listError, "absent")}
               \cup {ReadFailed(e, inv[i].listError, "error") : e \in DownloadErrors} :
       inv' = [inv EXCEPT ![i] = AfterRead(@, g)]
  /\ UNCHANGED <<blob, backups, processedMessages, putLog, storedRecords, ai, csv,
                 web, served, stats, rate>>

\* the outer catch of writeBlobContent, then the catch block of the handler
WriteFailed(l, e) == Catch(l, BlobWriteError(e), "write")

\* writeBlobContent, step 1: list answers
WriteList(i) ==
  /\ inv[i].pc = "w_list"
  /\ \/ inv' = [inv EXCEPT ![i] =
                  [@ EXCEPT !.pc = IF blob.present THEN "w_del" ELSE "w_put"]]
     \/ \E e \in ListErrors : inv' = [inv EXCEPT ![i] = WriteFailed(@, e)]
  /\ UNCHANGED <<blob, backups, processedMessages, putLog, storedRecords, ai, csv,
                 web, served, stats, rate>>

\* writeBlobContent, step 1: del(existingBlob.url) answers; the wait of one
\* second follows
WriteDel(i) ==
  /\ inv[i].pc = "w_del"
  /\ \/ /\ blob' = NoBlob
        /\ storedRecords' = <<>>
        /\ inv' = [inv EXCEPT ![i] = [@ EXCEPT !.pc = "w_put"]]
     \/ /\ \E e \in {ErrBlobAccess} : inv' = [inv EXCEPT ![i] = WriteFailed(@, e)]
        /\ UNCHANGED <<blob, storedRecords>>
  /\ UNCHANGED <<backups, processedMessages, putLog, ai, csv, web, served, stats, rate>>

\* the entry of the history for the put of the handler with locals l
PutOf(i, l) ==
  [inv |-> i, existing |-> l.existingRecords, new |-> l.newRecords,
   content |-> l.updatedContent, readAt |-> l.readAt, renderedFrom |-> l.renderedFrom]

\* the records of the document put last
LatestRecords ==
  IF putLog = <<>> THEN <<>>
  ELSE putLog[Len(putLog)].existing \o putLog[Len(putLog)].new

\* a put that appends the new records to the document put last, whatever the
\* handler had read
WritePutRebased(i) ==
  /\ inv[i].pc = "w_put"
  /\ blob' = [present |-> TRUE,
              content |-> generateCompleteCSV(LatestRecords \o inv[i].newRecords)]
  /\ storedRecords' = LatestRecords \o inv[i].newRecords
  /\ putLog' = Append(putLog,
                      [PutOf(i, inv[i]) EXCEPT
                         !.existing = LatestRecords,
                         !.content = generateCompleteCSV(LatestRecords \o inv[i].newRecords)])
  /\ inv' = [inv EXCEPT ![i] = [@ EXCEPT !.pc = "w_backup"]]
  /\ UNCHANGED <<backups, processedMessages, ai, csv, web, served, stats, rate>>

\* writeBlobContent, step 2: put(BLOB_FILE_KEY, newContent) answers
WritePut(i) ==
  /\ inv[i].pc = "w_put"
  /\ \/ /\ blob' = [present |-> TRUE, content |-> inv[i].updatedContent]
        /\ storedRecords' = inv[i].existingRecords \o inv[i].newRecords
        /\ putLog' = Append(putLog, PutOf(i, inv[i]))
        /\ inv' = [inv EXCEPT ![i] = [@ EXCEPT !.pc = "w_backup"]]
     \/ /\ \E e \in PutErrors : inv' = [inv EXCEPT ![i] = WriteFailed(@, e)]
        /\ UNCHANGED <<blob, storedRecords, putLog>>
  /\ UNCHANGED <<backups, processedMessages, ai, csv, web, served, stats, rate>>

\* step 7 of the handler: the confirmation
Confirm(l) ==
  Finish(Reply(l, IF l.isManualParsing THEN "confirm_manual" ELSE "confirm_ai"))

\* a writeBlobContent whose backup put is not wrapped in its own try/catch:
\* a failed backup reaches the outer catch
WriteBackupThrowing(i) ==
  /\ inv[i].pc = "w_backup"
  /\ \/ /\ backups' = backups \cup {inv[i].updatedContent}
        /\ inv' = [inv EXCEPT ![i] = Confirm(@)]
     \/ /\ UNCHANGED backups
        /\ inv' = [inv EXCEPT ![i] = WriteFailed(@, ErrNetwork)]
  /\ UNCHANGED <<blob, processedMessages, putLog, storedRecords, ai, csv, web, served, stats, rate>>

\* writeBlobContent, step 3: the put of the backup answers (a failure is
\* logged); then step 7 of the handler, the confirmation
WriteBackup(i) ==
  /\ inv[i].pc = "w_backup"
  /\ \/ backups' = backups \cup {inv[i].updatedContent}
     \/ UNCHANGED backups
  /\ inv' = [inv EXCEPT ![i] = Confirm(@)]
  /\ UNCHANGED <<blob, processedMessages, putLog, storedRecords, ai, csv, web, served, stats, rate>>

Next ==
  \E i \in Invocations :
    \/ \E m \in Messages : Receive(i, m)
    \/ \E outcomes \in AiRuns(inv[i].msg.text, DefaultMaxRetries) : Extract(i, outcomes)
    \/ ReadList(i)
    \/ ReadFetch(i)
    \/ ReadDownload(i)
    \/ WriteList(i)
    \/ WriteDel(i)
    \/ WritePut(i)
    \/ WriteBackup(i)

Spec == Init /\ [][Next]_vars

\* ------------------------------------------------------------------------
\* parseExpensesWithAI, one action per stretch between awaits
\* ------------------------------------------------------------------------

GEMINI_MIN_DELAY == 2000

\* Math.pow(3, attempt) * 2000
Backoff(attempt) == (3 ^ attempt) * 2000

\* the texts parseExpensesWithAI is called with
AiTexts ==
  {TextTaxi, TextLunch, <<>>, <<SP>>,
   <<"Taxi", SP, "5">>, <<"Water", SP, "bill", SP, "5">>, <<"pax", SP, "2">>}

\* the other variables while one function is looked at alone
AtRest ==
  /\ inv = [i \in Invocations |-> InitLocal]
  /\ blob = NoBlob
  /\ putLog = <<>>
  /\ storedRecords = <<>>
  /\ backups = {}
  /\ processedMessages = <<>>
  /\ rate = NoRate

InitAI ==
  /\ AtRest
  /\ stats = NoStats
  /\ \E t \in AiTexts, n \in 1..MaxRetriesBound, d \in {500, 5000} :
       ai = [NoAi EXCEPT !.pc = "start", !.text = t, !.maxRetries = n, !.sinceLast = d]
  /\ csv = NoCsv
  /\ web = NoWeb
  /\ served = <<>>

\* the rate limiting placed before the input check
AiStartWaitsFirst ==
  /\ ai.pc = "start"
  /\ ai' = IF IsEmptyInput(ai.text)
             THEN [ai EXCEPT !.pc = "done",
                             !.waits = IF ai.sinceLast < GEMINI_MIN_DELAY
                                         THEN <<GEMINI_MIN_DELAY - ai.sinceLast>>
                                         ELSE <<>>,
                             !.result = [t |-> "throw", records |-> <<>>,
                                         message |-> ErrEmptyInput, manual |-> FALSE]]
             ELSE [ai EXCEPT !.pc = "call", !.attempt = 1,
                             !.waits = IF ai.sinceLast < GEMINI_MIN_DELAY
                                         THEN <<GEMINI_MIN_DELAY - ai.sinceLast>>
                                         ELSE <<>>]
  /\ UNCHANGED <<inv, blob, backups, processedMessages, putLog, storedRecords, csv,
                 web, served, stats, rate>>

\* the input check and the rate limiting
AiStart ==
  /\ ai.pc = "start"
  /\ ai' = IF IsEmptyInput(ai.text)
             THEN [ai EXCEPT !.pc = "done",
                             !.result = [t |-> "throw", records |-> <<>>,
                                         message |-> ErrEmptyInput, manual |-> FALSE]]
             ELSE [ai EXCEPT !.pc = "call", !.attempt = 1,
                             !.waits = IF ai.sinceLast < GEMINI_MIN_DELAY
                                         THEN <<GEMINI_MIN_DELAY - ai.sinceLast>>
                                         ELSE <<>>]
  /\ UNCHANGED <<inv, blob, backups, processedMessages, putLog, storedRecords, csv,
                 web, served, stats, rate>>

\* a loop that also waits after its last attempt
AttemptedWaitsAfterLast(a, outcome, r) ==
  IF r.t = "retry"
    THEN [a EXCEPT !.pc = "wait", !.calls = Append(@, outcome),
                   !.waits = Append(@, Backoff(a.attempt))]
    ELSE [a EXCEPT !.pc = "done", !.calls = Append(@, outcome), !.result = r,
                   !.waits = IF outcome.kind = "err"
                               THEN Append(@, Backoff(a.attempt)) ELSE @]

\* parseExpensesWithAI after the attempt ended as r
Attempted(a, outcome, r) ==
  IF r.t = "retry"
    THEN [a EXCEPT !.pc = "wait", !.calls = Append(@, outcome),
                   !.waits = Append(@, Backoff(a.attempt))]
    ELSE [a EXCEPT !.pc = "done", !.calls = Append(@, outcome), !.result = r]

\* ai.models.generateContent answers: the try block or the catch block
AiCall(outcome) ==
  /\ ai.pc = "call"
  /\ ai' = Attempted(ai, outcome,
                     AttemptWith(ai.attempt, ai.maxRetries, outcome, Fallback(ai.text)))
  /\ UNCHANGED <<inv, blob, backups, processedMessages, putLog, storedRecords, csv,
                 web, served, stats, rate>>

\* the backoff is over: continue
AiBackoff ==
  /\ ai.pc = "wait"
  /\ ai' = [ai EXCEPT !.pc = "call", !.attempt = @ + 1]
  /\ UNCHANGED <<inv, blob, backups, processedMessages, putLog, storedRecords, csv,
                 web, served, stats, rate>>

SpecAI ==
  InitAI /\ [][\/ AiStart
               \/ \E outcome \in AiOutcomes(ai.text) : AiCall(outcome)
               \/ AiBackoff]_vars

\* every awaited promise settles: the model answers or fails, the timers fire
SpecAIFair ==
  SpecAI /\ WF_vars(\/ AiStart
                    \/ \E outcome \in AiOutcomes(ai.text) : AiCall(outcome)
                    \/ AiBackoff)

\* ------------------------------------------------------------------------
\* generateCompleteCSV and parseExistingCSV on a record set
\* ------------------------------------------------------------------------

\* the records rendered: a plain description, one with a comma, one with
\* quotes; a category of the set, one outside it, or blank
CsvRecords ==
  {Rec(Today, d, a, c) :
     d \in {<<"taxi", SP, "fare">>,
            <<"lunch", COMMA, SP, "2", SP, "pax">>,
            <<"the", SP, QUOTE, "ok", QUOTE>>},
     a \in {0, 5, NaN},
     c \in {<<"Food">>, <<"Misc">>, <<>>}}

CsvInputs == UNION {[1..n -> CsvRecords] : n \in 0..MaxRecords}

InitCSV ==
  /\ AtRest
  /\ stats = NoStats
  /\ ai = NoAi
  /\ \E R \in CsvInputs : csv = [NoCsv EXCEPT !.pc = "input", !.R = R]
  /\ web = NoWeb
  /\ served = <<>>

CsvRender ==
  /\ csv.pc = "input"
  /\ csv' = [csv EXCEPT !.pc = "rendered", !.doc = generateCompleteCSV(csv.R)]
  /\ UNCHANGED <<inv, blob, backups, processedMessages, putLog, storedRecords, ai,
                 web, served, stats, rate>>

CsvParse ==
  /\ csv.pc = "rendered"
  /\ csv' = [csv EXCEPT !.pc = "parsed", !.parsed = parseExistingCSV(csv.doc)]
  /\ UNCHANGED <<inv, blob, backups, processedMessages, putLog, storedRecords, ai,
                 web, served, stats, rate>>

SpecCSV == InitCSV /\ [][CsvRender \/ CsvParse]_vars

\* ------------------------------------------------------------------------
\* The webhook entry point: export default async (req, res)
\* ------------------------------------------------------------------------

InitWebhook ==
  /\ AtRest
  /\ stats = NoStats
  /\ ai = NoAi
  /\ csv = NoCsv
  /\ web = NoWeb
  /\ served = <<>>

\* res.status(status).send(...) without a look at res.headersSent
ExportSendUnguarded(w, status) == Append(w.responses, status)

\* if (!res.headersSent) res.status(status).send(...)
ExportSend(w, status) ==
  IF ~w.headersSent THEN Append(w.responses, status) ELSE w.responses

\* the request is answered: what the history keeps of it
Served(w, threw, responses) ==
  [sentInside |-> w.headersSent, threw |-> threw, responses |-> responses]

\* Vercel calls the exported function; it calls bot.handleUpdate(req.body, res)
WebRequest ==
  /\ web.pc = "idle"
  /\ Len(served) < MaxRequests
  /\ web' = [NoWeb EXCEPT !.pc = "handling"]
  /\ UNCHANGED <<inv, blob, backups, processedMessages, putLog, storedRecords, ai, csv,
                 served, stats, rate>>

\* inside bot.handleUpdate, Telegraf answers the request through res
TelegrafResponds ==
  /\ web.pc = "handling"
  /\ ~web.headersSent
  /\ web' = [web EXCEPT !.headersSent = TRUE, !.responses = Append(@, "telegraf")]
  /\ UNCHANGED <<inv, blob, backups, processedMessages, putLog, storedRecords, ai, csv,
                 served, stats, rate>>

\* bot.handleUpdate returns: the rest of the try block
HandleUpdateReturns ==
  /\ web.pc = "handling"
  /\ served' = Append(served, Served(web, FALSE, ExportSend(web, "200")))
  /\ web' = NoWeb
  /\ UNCHANGED <<inv, blob, backups, processedMessages, putLog, storedRecords, ai, csv, stats, rate>>

\* bot.handleUpdate throws: the catch block
HandleUpdateThrows ==
  /\ web.pc = "handling"
  /\ served' = Append(served, Served(web, TRUE, ExportSend(web, "500")))
  /\ web' = NoWeb
  /\ UNCHANGED <<inv, blob, backups, processedMessages, putLog, storedRecords, ai, csv, stats, rate>>

SpecWebhook ==
  InitWebhook /\ [][\/ WebRequest
                    \/ TelegrafResponds
                    \/ HandleUpdateReturns
                    \/ HandleUpdateThrows]_vars

\* ------------------------------------------------------------------------
\* getStatsFromSheet alone (the statistics of the Sheets variant; getStats of
\* the CSV-file variant runs the same loop and the same reduce)
\* ------------------------------------------------------------------------

\* a row of the sheet: date, description, amount and category cells
SheetRows ==
  {<<Today, <<"x">>, a, c>> : a \in {<<"5">>, <<"80">>, <<"abc">>},
                               c \in {"", "Food", "Transportation"}}

\* response.data.values: undefined, or the header row and the data rows
SheetValues ==
  {[defined |-> FALSE, rows |-> <<>>]}
    \cup {[defined |-> TRUE, rows |-> <<HeaderRow>> \o r] :
            r \in UNION {[1..n -> SheetRows] : n \in 0..MaxRows}}

\* a loop body that counts every row, parseable or not
StatsRowCountsAll(acc, amount, category) ==
  IF amount # NaN
    THEN [totalAmount |-> acc.totalAmount + amount,
          recordCount |-> acc.recordCount + 1,
          categoryTotals |->
            IF \E k \in 1..Len(acc.categoryTotals) : acc.categoryTotals[k][1] = category
              THEN [k \in 1..Len(acc.categoryTotals) |->
                     IF acc.categoryTotals[k][1] = category
                       THEN <<category, acc.categoryTotals[k][2] + amount>>
                       ELSE acc.categoryTotals[k]]
              ELSE Append(acc.categoryTotals, <<category, amount>>)]
    ELSE [acc EXCEPT !.recordCount = @ + 1]

\* the body of the loop over the rows, for a row with this amount and
\* category; categoryTotals keeps its keys in insertion order
StatsRow(acc, amount, category) ==
  IF amount # NaN
    THEN [totalAmount |-> acc.totalAmount + amount,
          recordCount |-> acc.recordCount + 1,
          categoryTotals |->
            IF \E k \in 1..Len(acc.categoryTotals) : acc.categoryTotals[k][1] = category
              THEN [k \in 1..Len(acc.categoryTotals) |->
                     IF acc.categoryTotals[k][1] = category
                       THEN <<category, acc.categoryTotals[k][2] + amount>>
                       ELSE acc.categoryTotals[k]]
              ELSE Append(acc.categoryTotals, <<category, amount>>)]
    ELSE acc

RECURSIVE StatsLoop(_, _)
\* for (const row of rows): amount = parseFloat(row[2]), category = row[3] || "Other"
StatsLoop(acc, rows) ==
  IF Len(rows) = 0 THEN acc
  ELSE StatsLoop(StatsRow(acc, ParseFloat(rows[1][3]),
                          IF rows[1][4] = "" THEN "Other" ELSE rows[1][4]),
                 Tail(rows))

RECURSIVE topCategory(_, _)
\* Object.entries(categoryTotals).reduce((a, b) => (a[1] > b[1] ? a : b), a)
topCategory(a, entries) ==
  IF Len(entries) = 0 THEN a
  ELSE topCategory(IF a[2] > entries[1][2] THEN a ELSE entries[1], Tail(entries))

\* averageExpense.toFixed(2), in hundredths
averageExpense(totalAmount, recordCount) ==
  (200 * totalAmount + recordCount) \div (2 * recordCount)

\* what getStatsFromSheet returns once the loop has ended with `acc`
StatsSummary(acc) ==
  IF acc.recordCount = 0
    THEN [summary |-> "No expenses found in Google Sheet."]
    ELSE [summary |-> "KwentaKo Statistics Summary",
          recordCount |-> acc.recordCount,
          totalAmount |-> acc.totalAmount,
          averageExpense |-> averageExpense(acc.totalAmount, acc.recordCount),
          topCategory |-> topCategory(<<"", 0>>, acc.categoryTotals),
          categoryBreakdown |-> acc.categoryTotals]

InitStats ==
  /\ AtRest
  /\ ai = NoAi
  /\ csv = NoCsv
  /\ web = NoWeb
  /\ served = <<>>
  /\ \E v \in SheetValues : stats = [NoStats EXCEPT !.pc = "get", !.values = v]

\* sheets.spreadsheets.values.get answers: rows = values ? values.slice(1) : []
StatsGet ==
  /\ stats.pc = "get"
  /\ stats' = [stats EXCEPT !.pc = "rows",
                            !.rows = IF stats.values.defined
                                       THEN Tail(stats.values.rows) ELSE <<>>]
  /\ UNCHANGED <<inv, blob, backups, processedMessages, putLog, storedRecords, ai, csv,
                 web, served, rate>>

\* the loop, the recordCount test and the summary
StatsSummarize ==
  /\ stats.pc = "rows"
  /\ stats' = [stats EXCEPT !.pc = "done",
                            !.result = StatsSummary(StatsLoop(
                               [totalAmount |-> 0, recordCount |-> 0,
                                categoryTotals |-> <<>>], stats.rows))]
  /\ UNCHANGED <<inv, blob, backups, processedMessages, putLog, storedRecords, ai, csv,
                 web, served, rate>>

SpecStats == InitStats /\ [][StatsGet \/ StatsSummarize]_vars

\* ------------------------------------------------------------------------
\* The de-duplication cache alone, near its capacity (the steps of the text
\* handler after the insertion never touch processedMessages)
\* ------------------------------------------------------------------------

\* the messages delivered: message 1 is the oldest one of the cache, the
\* last two of the cache are delivered again, the others are new
CacheMessages ==
  {Msg(7, k, <<"hi">>) : k \in {1} \cup ((CacheFill - 1)..(CacheFill + 5))}

\* the process has handled the messages 1..CacheFill, in this order
InitCache ==
  /\ inv = [i \in Invocations |-> InitLocal]
  /\ blob = NoBlob
  /\ putLog = <<>>
  /\ storedRecords = <<>>
  /\ backups = {}
  /\ processedMessages = [k \in 1..CacheFill |-> MessageKey(Msg(7, k, <<"hi">>))]
  /\ ai = NoAi
  /\ csv = NoCsv
  /\ web = NoWeb
  /\ served = <<>>
  /\ stats = NoStats
  /\ rate = NoRate

\* a text-message event arrives: the test of the cache, the insertion and
\* the eviction
CacheEvent(m) ==
  /\ processedMessages' = Dedup([InitLocal EXCEPT !.msg = m], m, MessageKey(m)).cache
  /\ UNCHANGED <<inv, blob, backups, putLog, storedRecords, ai, csv, web, served, stats, rate>>

SpecCache == InitCache /\ [][\E m \in CacheMessages : CacheEvent(m)]_vars

\* ------------------------------------------------------------------------
\* The rate limiting of parseExpensesWithAI: several calls in one process,
\* timed by a clock of whole seconds (timers fire when they are due)
\* ------------------------------------------------------------------------

InitRate ==
  /\ AtRest
  /\ ai = NoAi
  /\ csv = NoCsv
  /\ web = NoWeb
  /\ served = <<>>
  /\ stats = NoStats

\* lastGeminiCall = Date.now(), then the first generateContent of the loop
RateCalls(r, c) ==
  [r EXCEPT !.lastGeminiCall = r.now,
            !.calls = Append(@, r.now),
            !.caller[c] = [pc |-> "calling", wake |-> 0, attempt |-> 1]]

\* parseExpensesWithAI is called: the rate limiting check
RateStart(c) ==
  /\ rate.caller[c].pc = "idle"
  /\ rate' = IF rate.now - rate.lastGeminiCall < GEMINI_MIN_DELAY
               THEN [rate EXCEPT !.caller[c] =
                       [pc |-> "limited", attempt |-> 0,
                        wake |-> rate.now + (GEMINI_MIN_DELAY
                                             - (rate.now - rate.lastGeminiCall))]]
               ELSE RateCalls(rate, c)
  /\ UNCHANGED <<inv, blob, backups, processedMessages, putLog, storedRecords, ai, csv,
                 web, served, stats>>

\* a setTimeout is due: the rate-limit wait is over (lastGeminiCall is set
\* and the first call made), or the backoff is over (the next attempt calls)
RateTimer(c) ==
  /\ rate.caller[c].pc \in {"limited", "backoff"}
  /\ rate.caller[c].wake <= rate.now
  /\ rate' = IF rate.caller[c].pc = "limited"
               THEN RateCalls(rate, c)
               ELSE [rate EXCEPT !.calls = Append(@, rate.now),
                                 !.caller[c].pc = "calling",
                                 !.caller[c].attempt = @ + 1]
  /\ UNCHANGED <<inv, blob, backups, processedMessages, putLog, storedRecords, ai, csv,
                 web, served, stats>>

\* generateContent answers: return, throw, fall back, or back off
RateAnswer(c, outcome) ==
  /\ rate.caller[c].pc = "calling"
  /\ rate' = IF AttemptWith(rate.caller[c].attempt, DefaultMaxRetries, outcome,
                            [t |-> "return"]).t = "retry"
               THEN [rate EXCEPT !.caller[c].pc = "backoff",
                                 !.caller[c].wake = rate.now + Backoff(rate.caller[c].attempt)]
               ELSE [rate EXCEPT !.caller[c].pc = "done"]
  /\ UNCHANGED <<inv, blob, backups, processedMessages, putLog, storedRecords, ai, csv,
                 web, served, stats>>

\* one second passes, unless a timer is due
RateTick ==
  /\ rate.now < GEMINI_MIN_DELAY + MaxTicks * 1000
  /\ \A c \in 1..MaxCallers :
       rate.caller[c].pc \in {"limited", "backoff"} => rate.caller[c].wake > rate.now
  /\ rate' = [rate EXCEPT !.now = @ + 1000]
  /\ UNCHANGED <<inv, blob, backups, processedMessages, putLog, storedRecords, ai, csv,
                 web, served, stats>>

SpecRate ==
  InitRate /\ [][\/ \E c \in 1..MaxCallers :
                      \/ RateStart(c)
                      \/ RateTimer(c)
                      \/ \E outcome \in {AiOk(<<>>), AiErr(ErrOverloaded)} :
                           RateAnswer(c, outcome)
                 \/ RateTick]_vars

\* ------------------------------------------------------------------------
\* Properties
\* ------------------------------------------------------------------------

\* the lines of a document
RowsOf(content) == Split(content, NL)

\* the document holds the data row of record r
HasRow(content, r) ==
  \E k \in 1..Len(RowsOf(content)) : RowsOf(content)[k] = DataRow(r)

\* the put number kb was read before the put number ka of another handler
\* answered, and answered after it
LostUpdate(ka, kb) ==
  /\ ka < kb
  /\ putLog[ka].inv # putLog[kb].inv
  /\ putLog[kb].readAt < ka

Puts == 1..Len(putLog)

\* C1: the merge holds no lock.  Whenever two handlers have both read before
\* either has written, the document the later writer puts holds the later
\* writer's new records and none of the earlier writer's new records, and it
\* is the stored document as long as no put follows.
C1LastWriteWins ==
  \A ka \in Puts, kb \in Puts :
    LostUpdate(ka, kb) =>
      /\ \A n \in 1..Len(putLog[kb].new) : HasRow(putLog[kb].content, putLog[kb].new[n])
      /\ \A n \in 1..Len(putLog[ka].new) : ~HasRow(putLog[kb].content, putLog[ka].new[n])
      /\ (kb = Len(putLog) /\ blob.present) => blob.content = putLog[kb].content

\* C1, reached: both handlers read before either wrote, both wrote, both
\* confirmed to their users and returned, and the stored document lacks the
\* earlier writer's new record.
C1Reached ==
  \E ka \in Puts, kb \in Puts :
    /\ LostUpdate(ka, kb)
    /\ putLog[ka].inv # 0
    /\ putLog[ka].readAt < ka /\ putLog[ka].readAt = putLog[kb].readAt
    /\ kb = Len(putLog)
    /\ blob.present
    /\ \A n \in 1..Len(putLog[kb].new) : HasRow(blob.content, putLog[kb].new[n])
    /\ \A n \in 1..Len(putLog[ka].new) : ~HasRow(blob.content, putLog[ka].new[n])
    /\ \A i \in {putLog[ka].inv, putLog[kb].inv} :
         /\ inv[i].pc = "done"
         /\ inv[i].replies[Len(inv[i].replies)] \in {"confirm_ai", "confirm_manual"}

\* C2: writeBlobContent replaces the document atomically for every other
\* handler: a readBlobContent that finds no document in the store (and so
\* returns the initial empty document) does so only when no document has been
\* stored yet.
C2AtomicReplace ==
  \A i \in Invocations : inv[i].gotInitial = "absent" => inv[i].readAt = 0

RECURSIVE IsSubseq(_, _)
\* the elements of a are in b, in the order of a
IsSubseq(a, b) ==
  IF Len(a) = 0 THEN TRUE
  ELSE IF Len(b) = 0 THEN FALSE
  ELSE IF a[1] = b[1] THEN IsSubseq(Tail(a), Tail(b))
  ELSE IsSubseq(a, Tail(b))

\* the data rows a put wrote
RowsPut(p) ==
  [n \in 1..(Len(p.existing) + Len(p.new)) |-> DataRow((p.existing \o p.new)[n])]

\* no handler is between its event and its return
Quiescent == \A i \in Invocations : inv[i].pc \in {"idle", "done"}

\* C3: the stored document is append-only.  When no handler is running, every
\* data row that a put has once written is a line of the stored document,
\* unchanged, and the rows of one put are in it in the order they were written.
C3AppendOnly ==
  Quiescent =>
    \A k \in Puts :
      IsSubseq(RowsPut(putLog[k]), IF blob.present THEN RowsOf(blob.content) ELSE <<>>)

\* C4: round trip.  For every non-empty sequence R of records,
\* parseExistingCSV(generateCompleteCSV(R)) is R: same records, same order,
\* same date, description, amount and category.
C4RoundTrip ==
  (/\ csv.pc = "parsed"
   /\ csv.R # <<>>
   /\ \A k \in 1..Len(csv.R) : csv.R[k].amount # NaN)
  => csv.parsed = csv.R

\* C5: merge append order.  For a merge that overlapped no other and whose
\* handler has returned, the document it wrote parses back to the records E
\* the stored document was rendered from, followed by the new records N.
C5MergeOrder ==
  \A k \in Puts :
    (/\ putLog[k].inv # 0
     /\ inv[putLog[k].inv].pc = "done"
     /\ ~inv[putLog[k].inv].overlapped)
    => parseExistingCSV(putLog[k].content) = putLog[k].renderedFrom \o putLog[k].new

\* the call ended in an error classified as transient
TransientFailure(o) == o.kind = "err" /\ IsTransient(o.message)

\* the call ended in an error not classified as transient
OtherFailure(o) == o.kind = "err" /\ ~IsTransient(o.message)

AllTransient(calls) == \A k \in 1..Len(calls) : TransientFailure(calls[k])

\* C6: when every call of the model fails transiently, parseExpensesWithAI
\* makes exactly maxRetries calls, then returns the non-empty result of the
\* fallback parser; it never throws.
C6TransientExhausted ==
  (Len(ai.calls) >= 1 /\ AllTransient(ai.calls)) =>
    /\ Len(ai.calls) <= ai.maxRetries
    /\ ai.result.t # "throw"
    /\ ai.pc = "done" =>
         /\ Len(ai.calls) = ai.maxRetries
         /\ ai.result.t = "return"
         /\ ai.result.records = parseExpensesManually(ai.text)
         /\ Len(ai.result.records) >= 1

\* C6, reached: three transient failures with maxRetries = 3, then the
\* fallback parser's record
C6Reached ==
  /\ ai.pc = "done"
  /\ ai.maxRetries = 3
  /\ Len(ai.calls) = 3
  /\ AllTransient(ai.calls)
  /\ ai.result.t = "return"
  /\ ai.result.manual
  /\ Len(ai.result.records) = 1

\* C7, as claimed: a non-transient failure is never retried and always
\* propagates: no call follows it, and parseExpensesWithAI throws that error,
\* at whichever attempt it occurs.
C7AlwaysPropagates ==
  \A k \in 1..Len(ai.calls) :
    OtherFailure(ai.calls[k]) =>
      /\ k = Len(ai.calls)
      /\ ai.pc = "done"
      /\ ai.result.t = "throw"
      /\ ai.result.message = ai.calls[k].message

\* C7, amended: a non-transient failure is never retried; it propagates when
\* it occurs before the last allowed attempt, and on the last allowed attempt
\* (attempt = maxRetries) parseExpensesWithAI returns the fallback parser's
\* result instead.
C7PropagatesBeforeLast ==
  \A k \in 1..Len(ai.calls) :
    OtherFailure(ai.calls[k]) =>
      /\ k = Len(ai.calls)
      /\ ai.pc = "done"
      /\ IF k < ai.maxRetries
           THEN /\ ai.result.t = "throw"
                /\ ai.result.message = ai.calls[k].message
           ELSE /\ ai.result.t = "return"
                /\ ai.result.manual
                /\ ai.result.records = parseExpensesManually(ai.text)

\* C7, reached: a non-transient failure on the second of three attempts,
\* after a transient one, is thrown
C7Reached ==
  /\ ai.pc = "done"
  /\ ai.maxRetries = 3
  /\ Len(ai.calls) = 2
  /\ TransientFailure(ai.calls[1])
  /\ OtherFailure(ai.calls[2])
  /\ ai.result.t = "throw"
  /\ ai.result.message = ai.calls[2].message

\* C8: every request gets exactly one HTTP response, whether bot.handleUpdate
\* returned or threw and whether or not a response was sent inside it: the
\* export sends 200 or 500 only when none was sent, and never a second one.
C8OneResponse ==
  /\ Len(web.responses) <= 1
  /\ \A k \in 1..Len(served) :
       /\ Len(served[k].responses) = 1
       /\ served[k].responses =
            IF served[k].sentInside THEN <<"telegraf">>
            ELSE IF served[k].threw THEN <<"500">>
            ELSE <<"200">>

\* C8, reached: among the requests answered, bot.handleUpdate has thrown
\* after a response was sent inside it, and has thrown and returned without
\* one
C8Reached ==
  /\ \E k \in 1..Len(served) :
       served[k].sentInside /\ served[k].threw /\ served[k].responses = <<"telegraf">>
  /\ \E k \in 1..Len(served) :
       ~served[k].sentInside /\ served[k].threw /\ served[k].responses = <<"500">>
  /\ \E k \in 1..Len(served) :
       ~served[k].sentInside /\ ~served[k].threw /\ served[k].responses = <<"200">>

FailureReplies == {"overloaded", "rate_limit", "saving_issue", "unexpected"}

Confirmations == {"confirm_ai", "confirm_manual"}

\* C9: a handling of a text message that ended because extraction, the read
\* of the store or the write to the store threw has sent exactly one failure
\* reply and no confirmation.
C9OneFailureReply ==
  \A i \in Invocations :
    (inv[i].pc = "done" /\ inv[i].failure \in {"extract", "read", "write"}) =>
      /\ Len(SelectSeq(inv[i].replies, LAMBDA r : r \in FailureReplies)) = 1
      /\ Len(SelectSeq(inv[i].replies, LAMBDA r : r \in Confirmations)) = 0
      /\ inv[i].replies[Len(inv[i].replies)] \in FailureReplies

\* C9, reached: one handling ended by a failed write, another by a failed
\* extraction or a failed read, each with its failure reply
C9Reached ==
  \E i \in Invocations, j \in Invocations :
    /\ inv[i].pc = "done" /\ inv[i].failure = "write"
    /\ inv[i].replies = <<"processing", "saving_issue">>
    /\ inv[j].pc = "done" /\ inv[j].failure \in {"extract", "read"}
    /\ Len(inv[j].replies) = 2

\* C10: every record the text handler appends to the stored document has a
\* category of the fixed set.
C10CategoryInSet ==
  \A k \in Puts :
    \A n \in 1..Len(putLog[k].new) :
      putLog[k].new[n].category \in {<<c>> : c \in CategorySet}

\* the records whose description holds no comma and no double quote: their
\* rows have the four columns generateCompleteCSV wrote
PlainRows(R) ==
  \A k \in 1..Len(R) : \A j \in 1..Len(R[k].description) :
    R[k].description[j] \notin {COMMA, QUOTE}

\* C11: category normalization on parse.  For every data row whose category
\* column is blank or is a value outside the fixed set, parseExistingCSV
\* yields a record for that row with category = Other.
C11CategoryNormalized ==
  (/\ csv.pc = "parsed"
   /\ PlainRows(csv.R)
   /\ \A k \in 1..Len(csv.R) : csv.R[k].amount # NaN)
  => /\ Len(csv.parsed) = Len(csv.R)
     /\ \A k \in 1..Len(csv.R) :
          (\A c \in CategorySet : csv.R[k].category # <<c>>)
            => csv.parsed[k].category = <<"Other">>

\* C12: corrupt-row tolerance.  Parsing a document in which some rows have a
\* non-numeric amount field does not fail, yields exactly the records of the
\* well-formed rows in their order, and yields no record for any row with a
\* non-numeric amount.
C12CorruptRowsDropped ==
  (/\ csv.pc = "parsed"
   /\ \E k \in 1..Len(csv.R) : csv.R[k].amount = NaN)
  => csv.parsed = SelectSeq(csv.R, LAMBDA r : r.amount # NaN)

\* the same, for documents whose rows have four columns
C12PlainRowsDropped ==
  (/\ csv.pc = "parsed"
   /\ PlainRows(csv.R)
   /\ \E k \in 1..Len(csv.R) : csv.R[k].amount = NaN)
  => csv.parsed = SelectSeq(csv.R, LAMBDA r : r.amount # NaN)

\* C13: a missing target blob is a valid starting state.  Whenever the blob
\* does not exist when a call of readBlobContent ends (the listing has no
\* exact match, or both read methods fail with a not-found error), the call
\* returns the canonical initial document without raising: the handler goes
\* on with the records of generateInitialCSV.  The call raises only if
\* neither read method failed with a not-found error.
C13MissingBlobIsInitial ==
  [][\A i \in Invocations :
       (/\ ~blob.present
        /\ inv[i].pc \in {"r_list", "r_fetch", "r_dl"}
        /\ inv'[i].pc \notin {"r_list", "r_fetch", "r_dl"})
       => \/ /\ inv'[i].pc = "w_list"
             /\ inv'[i].failure = "none"
             /\ inv'[i].gotInitial # "none"
             /\ inv'[i].existingRecords = parseExistingCSV(generateInitialCSV)
          \/ /\ inv'[i].failure = "read"
             /\ inv[i].pc = "r_dl"
             /\ \A m \in {<<"404">>, <<"file not found">>, <<"Blob", "NotFoundError">>} :
                  ~Includes(SubSeq(inv'[i].error, 3, Len(inv'[i].error)), m)
             /\ \A m \in {<<"404">>, <<"file not found">>} :
                  ~Includes(inv[i].listError, m)]_vars

\* both read methods failed with a not-found error (the blob was deleted
\* between the listing and the fetch), and the handler went on with the
\* initial document
C13Reached ==
  \E i \in Invocations :
    /\ inv[i].pc = "w_list"
    /\ inv[i].gotInitial = "absent"
    /\ Includes(inv[i].listError, <<"404">>)
    /\ inv[i].existingRecords = <<>>

\* C14: a store read or write error that is not "resource absent" propagates
\* to the text handler, which then sends no confirmation and tells the user
\* that the data could not be saved: its reply is the data-saving-issue
\* reply, not the AI-overloaded, rate-limit or unexpected-error reply.
C14StoreErrorReply ==
  \A i \in Invocations :
    (inv[i].pc = "done" /\ inv[i].failure \in {"read", "write"}) =>
      /\ \A k \in 1..Len(inv[i].replies) : inv[i].replies[k] \notin Confirmations
      /\ inv[i].replies[Len(inv[i].replies)] = "saving_issue"

\* C15: idempotent empty state.  parseExistingCSV applied to the document
\* returned by generateInitialCSV yields an empty sequence of records: a
\* handler whose read returned the initial document merges its new records
\* into no records.
C15InitialParsesEmpty ==
  /\ parseExistingCSV(generateInitialCSV) = <<>>
  /\ \A i \in Invocations :
       (inv[i].pc \in {"w_list", "w_del", "w_put", "w_backup"} /\ inv[i].gotInitial # "none")
         => /\ inv[i].existingRecords = <<>>
            /\ inv[i].updatedContent = generateCompleteCSV(inv[i].newRecords)

\* the listing had no match, the initial document was parsed
C15Reached ==
  \E i \in Invocations :
    /\ inv[i].pc = "w_put"
    /\ inv[i].gotInitial = "absent"
    /\ inv[i].listError = <<>>
    /\ inv[i].newRecords # <<>>
    /\ inv[i].existingRecords = <<>>

\* C16: divide-by-zero guard in render.  For every record set whose total
\* amount is 0, including the empty set, generateCompleteCSV emits a
\* percentage of 0.0% for each of the six categories and never a NaN or
\* infinite percentage.
C16ZeroTotalPercent ==
  (csv.pc \in {"rendered", "parsed"} /\ SumAmounts(csv.R) = 0) =>
    /\ \A i \in 1..Len(categories) :
         \E n \in 1..Len(Split(csv.doc, NL)) :
           Split(csv.doc, NL)[n] =
             <<"# ", categories[i], ": PHP ", "0", ".00", " (", "0.0", "%)">>
    /\ \A n \in 1..Len(csv.doc) : csv.doc[n] \notin {"NaN", "Infinity"}

\* two records of amount 0 were rendered
C16Reached ==
  /\ csv.pc = "rendered"
  /\ Len(csv.R) = 2
  /\ SumAmounts(csv.R) = 0
  /\ Includes(csv.doc, <<" (", "0.0", "%)">>)

\* the rows of the sheet whose amount cell parses as a number
ParseableRows == SelectSeq(stats.rows, LAMBDA row : ParseFloat(row[3]) # NaN)

\* C17: divide-by-zero guard in summarize.  When the store holds zero
\* records with a parseable amount, the statistics function returns the
\* "no records" summary without computing an average; otherwise the average
\* it reports is the total amount divided by the count of records with a
\* parseable amount.
C17AverageGuarded ==
  stats.pc = "done" =>
    IF Len(ParseableRows) = 0
      THEN stats.result = [summary |-> "No expenses found in Google Sheet."]
      ELSE /\ stats.result.summary = "KwentaKo Statistics Summary"
           /\ stats.result.recordCount = Len(ParseableRows)
           /\ stats.result.totalAmount =
                SumAmounts([k \in 1..Len(ParseableRows) |->
                              [amount |-> ParseFloat(ParseableRows[k][3])]])
           /\ 2 * stats.result.recordCount * stats.result.averageExpense
                <= 200 * stats.result.totalAmount + stats.result.recordCount
           /\ 200 * stats.result.totalAmount + stats.result.recordCount
                < 2 * stats.result.recordCount * (stats.result.averageExpense + 1)

\* a sheet with an unparseable row among parseable ones was summarized
C17Reached ==
  /\ stats.pc = "done"
  /\ Len(stats.rows) = 3
  /\ Len(ParseableRows) = 2
  /\ stats.result.summary = "KwentaKo Statistics Summary"
  /\ stats.result.averageExpense = 4250

\* C18: the top category reported by the statistics function is the
\* category with the highest summed amount across all records, and when
\* several categories share the highest sum it is the one whose key was
\* encountered first in insertion order.
C18TopCategoryFirstMax ==
  (stats.pc = "done" /\ stats.result.summary = "KwentaKo Statistics Summary") =>
    \E k \in 1..Len(stats.result.categoryBreakdown) :
      /\ stats.result.topCategory = stats.result.categoryBreakdown[k]
      /\ \A j \in 1..Len(stats.result.categoryBreakdown) :
           /\ stats.result.categoryBreakdown[j][2] <= stats.result.categoryBreakdown[k][2]
           /\ j < k =>
                stats.result.categoryBreakdown[j][2] < stats.result.categoryBreakdown[k][2]

\* the same without the tie rule: the top category has the highest sum
C18TopCategoryIsMax ==
  (stats.pc = "done" /\ stats.result.summary = "KwentaKo Statistics Summary") =>
    \E k \in 1..Len(stats.result.categoryBreakdown) :
      /\ stats.result.topCategory = stats.result.categoryBreakdown[k]
      /\ \A j \in 1..Len(stats.result.categoryBreakdown) :
           stats.result.categoryBreakdown[j][2] <= stats.result.categoryBreakdown[k][2]

\* the fixed keyword table of the fallback parser, by category
KeywordTable ==
  [Food |-> FoodKeywords, Transportation |-> TransportationKeywords,
   Supplies |-> SuppliesKeywords, Utilities |-> UtilitiesKeywords,
   Personal |-> PersonalKeywords]

\* the categories of which a keyword occurs in the text, whatever its case
KeywordHits(text) ==
  {c \in DOMAIN KeywordTable : IncludesAny(LowerChars(text), KeywordTable[c])}

\* C19: under forced AI failure the fallback parser returns exactly one
\* record whose amount is the number found in the text and whose category is
\* chosen by case-insensitive keyword matching against the fixed table
\* (Other when no keyword occurs): a text containing only a Transportation
\* keyword is Transportation, one containing only a Utilities keyword is
\* Utilities, and so on; "taxi fare 80" yields Transportation and 80.
C19FallbackRecord ==
  (ai.pc = "done" /\ ai.result.t = "return" /\ ai.result.manual) =>
    /\ Len(ai.result.records) = 1
    /\ \E k \in 1..Len(ai.text) :
         IsNumTok(ai.text[k]) /\ ai.result.records[1].amount = NumVal(ai.text[k])
    /\ \A n \in Numbers :
         Len(SelectSeq(ai.text, IsNumTok)) = 1 /\ Includes(ai.text, <<ToString(n)>>)
           => ai.result.records[1].amount = n
    /\ KeywordHits(ai.text) = {} => ai.result.records[1].category = <<"Other">>
    /\ \A c \in DOMAIN KeywordTable :
         KeywordHits(ai.text) = {c} => ai.result.records[1].category = <<c>>
    /\ ai.text = TextTaxi =>
         /\ ai.result.records[1].amount = 80
         /\ ai.result.records[1].category = <<"Transportation">>

\* every call of the model failed with a transient error, and the fallback
\* parser read "taxi fare 80"
C19Reached ==
  /\ ai.pc = "done"
  /\ ai.text = TextTaxi
  /\ Len(ai.calls) = ai.maxRetries
  /\ AllTransient(ai.calls)
  /\ ai.result.manual
  /\ ai.result.records = <<Rec(Today, <<"taxi", SP, "fare">>, 80, <<"Transportation">>)>>

\* C20: empty input fails fast.  parseExpensesWithAI called with a text that
\* is empty after trimming throws before waiting for the rate limit and
\* before any call to the model, and no record is produced.
C20EmptyInputFailsFast ==
  (ai.pc \in {"call", "wait", "done"} /\ Trim(ai.text) = <<>>) =>
    /\ ai.pc = "done"
    /\ ai.result.t = "throw"
    /\ ai.result.message = <<"Empty input text">>
    /\ ai.result.records = <<>>
    /\ ai.waits = <<>>
    /\ ai.calls = <<>>

\* a blank text, less than GEMINI_MIN_DELAY after the last call: thrown at
\* once
C20Reached ==
  /\ ai.pc = "done"
  /\ ai.text = <<SP>>
  /\ ai.sinceLast < GEMINI_MIN_DELAY
  /\ ai.result.t = "throw"
  /\ ai.waits = <<>>

\* C21: when extraction returns an empty array, the text handler treats it
\* as "nothing extracted", not an error: it sends the could-not-extract
\* reply, performs no store read and no store write, and the stored document
\* is unchanged.
C21EmptyExtraction ==
  /\ [][\A i \in Invocations :
          (/\ inv[i].pc = "extract"
           /\ inv'[i].pc # "extract"
           /\ inv'[i].failure = "none"
           /\ inv'[i].newRecords = <<>>)
          => /\ inv'[i].pc = "done"
             /\ inv'[i].replies = Append(inv[i].replies, "could_not_extract")
             /\ blob' = blob /\ backups' = backups /\ putLog' = putLog]_vars
  /\ [](\A i \in Invocations :
          (/\ inv[i].replies # <<>>
           /\ inv[i].replies[Len(inv[i].replies)] = "could_not_extract")
          => /\ inv[i].pc = "done"
             /\ inv[i].replies = <<"processing", "could_not_extract">>
             /\ inv[i].failure = "none"
             /\ inv[i].gotInitial = "none"
             /\ inv[i].readAt = 0
             /\ \A k \in 1..Len(putLog) : putLog[k].inv # i)

\* the model answered "taxi fare 80" with an empty array while a document
\* was stored: the handler replied and the document is still stored
C21Reached ==
  \E i \in Invocations :
    /\ inv[i].pc = "done"
    /\ inv[i].replies = <<"processing", "could_not_extract">>
    /\ blob.present
    /\ blob.content = generateCompleteCSV(PriorRecords)

\* C22: failure to write the timestamped backup copy does not fail the
\* write.  Whenever the put of the main document succeeds, the stored
\* document is the new content; whatever the put of the backup does then
\* (also when it throws), writeBlobContent returns without throwing, the
\* stored document is left as it is, and the handler confirms.
C22BackupFailureTolerated ==
  [][\A i \in Invocations :
       /\ (inv[i].pc = "w_put" /\ inv'[i].pc = "w_backup")
            => blob' = [present |-> TRUE, content |-> inv[i].updatedContent]
       /\ (inv[i].pc = "w_backup" /\ inv'[i].pc # "w_backup")
            => /\ inv'[i].pc = "done"
               /\ inv'[i].failure = "none"
               /\ inv'[i].replies[Len(inv'[i].replies)] \in Confirmations
               /\ blob' = blob
               /\ backups' \in {backups, backups \cup {inv[i].updatedContent}}]_vars

\* a handler has confirmed although no backup was ever written, and the
\* document it put is the stored one
C22Reached ==
  \E i \in Invocations :
    /\ inv[i].pc = "done"
    /\ inv[i].replies # <<>>
    /\ inv[i].replies[Len(inv[i].replies)] \in Confirmations
    /\ backups = {}
    /\ blob.present
    /\ \E k \in 1..Len(putLog) : putLog[k].inv = i /\ putLog[k].content = blob.content

\* C23: the de-duplication cache is bounded with oldest-entry eviction.
\* After any sequence of text-message events the cache holds at most
\* MESSAGE_CACHE_SIZE (100) keys, and whenever an insertion would make it
\* exceed that size the key removed is the one inserted earliest among those
\* present: the others stay, in their order, followed by the new key.
C23CacheBounded ==
  /\ [](Len(processedMessages) <= 100)
  /\ [][processedMessages' # processedMessages =>
         /\ Len(processedMessages') = IF Len(processedMessages) < 100
                                        THEN Len(processedMessages) + 1 ELSE 100
         /\ SubSeq(processedMessages', 1, Len(processedMessages') - 1) =
              IF Len(processedMessages) < 100
                THEN processedMessages ELSE Tail(processedMessages)
         /\ \A k \in 1..Len(processedMessages) :
              processedMessages[k] # processedMessages'[Len(processedMessages')]]_vars

\* the cache is full and its three oldest keys have been evicted
C23Reached ==
  /\ Len(processedMessages) = 100
  /\ processedMessages[1] = MessageKey(Msg(7, 4, <<"hi">>))
  /\ processedMessages[100] = MessageKey(Msg(7, CacheFill + 5, <<"hi">>))

\* C24: exact re-delivery is suppressed.  When a text-message event arrives
\* whose key (sender id, message id, first 50 characters of the text) is
\* still in the cache, the handler returns without calling the model,
\* without reading or writing the store and without replying; a message
\* delivered twice to the same process appends its records at most once,
\* also when the two deliveries are handled concurrently.
C24RedeliverySuppressed ==
  /\ [][\A i \in Invocations :
          (/\ inv[i].pc = "idle"
           /\ inv'[i].pc # "idle"
           /\ \E k \in 1..Len(processedMessages) :
                processedMessages[k] = MessageKey(inv'[i].msg))
          => /\ inv'[i] = [InitLocal EXCEPT !.pc = "done", !.msg = inv'[i].msg]
             /\ UNCHANGED <<processedMessages, blob, backups, putLog>>]_vars
  /\ [](\A i \in Invocations : \A j \in Invocations :
          (i < j /\ inv[j].pc # "idle" /\ inv[i].msg = inv[j].msg)
          => /\ inv[j].pc = "done"
             /\ inv[j].replies = <<>>
             /\ inv[j].readAt = 0
             /\ inv[j].gotInitial = "none"
             /\ \A k \in 1..Len(putLog) : putLog[k].inv # j)

\* "taxi fare 80" was delivered twice: the first handler put its record and
\* confirmed, the second returned at once
C24Reached ==
  /\ inv[1].msg.text = TextTaxi
  /\ inv[2].msg = inv[1].msg
  /\ inv[2].pc = "done"
  /\ inv[2].replies = <<>>
  /\ inv[1].pc = "done"
  /\ inv[1].replies[Len(inv[1].replies)] \in Confirmations
  /\ Len(SelectSeq(putLog, LAMBDA p : p.inv # 0)) = 1
  /\ \E k \in 1..Len(putLog) : putLog[k].inv = 1

\* C25: rate limiting of the model.  Any two calls to the Gemini API made
\* by one process are at least GEMINI_MIN_DELAY (2000 ms) apart, for any
\* number of text messages handled concurrently and including retry
\* attempts.
C25CallsApart ==
  \A i \in 1..Len(rate.calls) : \A j \in 1..Len(rate.calls) :
    i < j => rate.calls[j] - rate.calls[i] >= 2000

\* the same for the calls of one parseExpensesWithAI alone: no other call of
\* it begins before the first one has ended
C25OneCallerApart ==
  (\A c \in 2..MaxCallers : rate.caller[c].pc = "idle") => C25CallsApart

\* C26: a failed write leaves the previous document in place.  Whenever
\* writeBlobContent throws (the listing, the delete or the put failed), the
\* document that was stored before the call is still stored afterwards with
\* the same records.  (Stated for a handler that read a stored document and
\* overlapped no other merge, so that the document before the call is the
\* one it read.)
C26FailedWriteKeepsDocument ==
  [][\A i \in Invocations :
       (/\ inv[i].pc \in {"w_list", "w_del", "w_put"}
        /\ inv'[i].pc = "done"
        /\ inv'[i].failure = "write"
        /\ ~inv[i].overlapped
        /\ inv[i].gotInitial = "none")
       => /\ blob'.present
          /\ parseExistingCSV(blob'.content) = inv[i].existingRecords
          /\ storedRecords' = inv[i].renderedFrom]_vars

\* the same for a write that failed in its listing or in its delete
C26FailedBeforeDelete ==
  [][\A i \in Invocations :
       (/\ inv[i].pc \in {"w_list", "w_del"}
        /\ inv'[i].pc = "done"
        /\ inv'[i].failure = "write"
        /\ ~inv[i].overlapped
        /\ inv[i].gotInitial = "none")
       => /\ blob'.present
          /\ parseExistingCSV(blob'.content) = inv[i].existingRecords
          /\ storedRecords' = inv[i].renderedFrom]_vars

\* the backoff waits of the call: its waits without the rate-limit wait
BackoffWaits ==
  IF ai.waits # <<>> /\ ai.sinceLast < GEMINI_MIN_DELAY THEN Tail(ai.waits) ELSE ai.waits

\* C27: for every sequence of AI outcomes and every maxRetries >= 1,
\* parseExpensesWithAI terminates after at most maxRetries calls to the
\* model, by returning an array of records or by throwing, and a backoff
\* wait occurs only between two attempts, never after the last attempt.
C27TerminatesWithinRetries ==
  /\ <>(ai.pc = "done")
  /\ [](/\ Len(ai.calls) <= ai.maxRetries
        /\ ai.pc = "done" => ai.result.t \in {"return", "throw"}
        /\ ai.pc = "call" => /\ ai.attempt = Len(ai.calls) + 1
                             /\ ai.attempt <= ai.maxRetries
                             /\ Len(BackoffWaits) = Len(ai.calls)
        /\ ai.pc = "wait" => /\ Len(ai.calls) < ai.maxRetries
                             /\ Len(BackoffWaits) = Len(ai.calls)
        /\ (ai.pc = "done" /\ ai.calls # <<>>) => Len(BackoffWaits) = Len(ai.calls) - 1
        /\ (ai.pc = "done" /\ ai.calls = <<>>) => BackoffWaits = <<>>)

\* all the attempts were used, the last after a backoff, and records returned
C27Reached ==
  /\ ai.pc = "done"
  /\ ai.maxRetries >= 2
  /\ Len(ai.calls) = ai.maxRetries
  /\ Len(BackoffWaits) = ai.maxRetries - 1
  /\ ai.calls[Len(ai.calls)].kind = "err"
  /\ ai.result.t = "return"

\* the number a field of the document shows, NaN when it is not a number
ShownNumber(tok) ==
  IF \E n \in 0..400 : ToString(n) = tok
    THEN CHOOSE n \in 0..400 : ToString(n) = tok
    ELSE NaN

\* the amount column of a data row: the field before the row's last comma
RowAmount(line) ==
  LET k == CHOOSE i \in 1..Len(line) :
             line[i] = COMMA /\ \A j \in (i+1)..Len(line) : line[j] # COMMA
  IN  ShownNumber(line[k-1])

RECURSIVE SumShown(_)
\* the sum of the numbers of a sequence, NaN when one of them is NaN
SumShown(ns) ==
  IF Len(ns) = 0 THEN 0
  ELSE IF ns[1] = NaN \/ SumShown(Tail(ns)) = NaN THEN NaN
  ELSE ns[1] + SumShown(Tail(ns))

\* the data rows of a document of generateCompleteCSV: the lines after the
\* fifteen lines of its preamble
DataRowsOf(lines) ==
  SelectSeq(SubSeq(lines, 16, Len(lines)), LAMBDA l : l # <<>>)

\* the preamble of the document agrees with its data rows
PreambleConsistent(lines, rows) ==
  /\ lines[5] = <<"# Total Records: ", ToString(Len(rows))>>
  /\ ShownNumber(lines[4][2]) = SumShown([k \in 1..Len(rows) |-> RowAmount(rows[k])])
  /\ SumShown([c \in 1..6 |-> ShownNumber(lines[7 + c][4])]) = ShownNumber(lines[4][2])

\* C28: in every document produced by generateCompleteCSV the metadata
\* preamble is consistent with the data rows: 'Total Records' equals the
\* number of data rows, 'Total Expenses' equals the sum of the rows'
\* amounts, and the six per-category amounts listed in the breakdown sum to
\* 'Total Expenses'.
C28PreambleConsistent ==
  csv.pc \in {"rendered", "parsed"}
    => PreambleConsistent(Split(csv.doc, NL), DataRowsOf(Split(csv.doc, NL)))

\* the same, for records whose categories are all of the six and whose
\* amounts are all numbers
C28InSetConsistent ==
  (/\ csv.pc \in {"rendered", "parsed"}
   /\ \A k \in 1..Len(csv.R) : csv.R[k].amount # NaN
   /\ \A k \in 1..Len(csv.R) : csv.R[k].category \in {<<c>> : c \in CategorySet})
    => PreambleConsistent(Split(csv.doc, NL), DataRowsOf(Split(csv.doc, NL)))

\* the same, for the documents the text handler stores
C28StoredConsistent ==
  \A k \in Puts :
    PreambleConsistent(Split(putLog[k].content, NL),
                       DataRowsOf(Split(putLog[k].content, NL)))

\* C29: the confirmation reply's parsing-method label is accurate: it says
\* manual parsing was used exactly when the new records were produced by the
\* fallback parser parseExpensesManually, and says AI parsing exactly when
\* they were produced by the model.
C29ParsingLabelAccurate ==
  \A i \in Invocations :
    (/\ inv[i].pc = "done"
     /\ inv[i].replies # <<>>
     /\ inv[i].replies[Len(inv[i].replies)] \in Confirmations)
    => (inv[i].replies[Len(inv[i].replies)] = "confirm_manual" <=> inv[i].usedFallback)

\* the label follows the handler's test of the records it appended: manual
\* when one of them has the amount 0 or the description "Manual entry"
C29LabelFollowsHeuristic ==
  \A i \in Invocations : \A p \in Puts :
    (/\ inv[i].pc = "done"
     /\ inv[i].replies # <<>>
     /\ inv[i].replies[Len(inv[i].replies)] \in Confirmations
     /\ putLog[p].inv = i)
    => (inv[i].replies[Len(inv[i].replies)] = "confirm_manual"
          <=> \E k \in 1..Len(putLog[p].new) :
                \/ putLog[p].new[k].amount = 0
                \/ putLog[p].new[k].description = <<"Manual entry">>)

\* a confirmation that says manual parsing for records of the fallback parser
C29ManualLabelForFallback ==
  \E i \in Invocations :
    /\ inv[i].pc = "done"
    /\ inv[i].usedFallback
    /\ inv[i].replies # <<>>
    /\ inv[i].replies[Len(inv[i].replies)] = "confirm_manual"

\* a confirmation that says manual parsing for records of the model
C29ManualLabelForModel ==
  \E i \in Invocations :
    /\ inv[i].pc = "done"
    /\ ~inv[i].usedFallback
    /\ inv[i].replies # <<>>
    /\ inv[i].replies[Len(inv[i].replies)] = "confirm_manual"

====
